---- MODULE Spec2Model ----
(***************************************************************************)
(* Controller orchestration layer of tosca-controller: the privacy-policy  *)
(* gate (policy.rs), the device/request senders and the Controller         *)
(* aggregate (controller.rs), and the per-device event subscriber tasks     *)
(* (events.rs).                                                             *)
(***************************************************************************)
EXTENDS Integers, Sequences, FiniteSets, TLC

\* ------------------------------------------------------------------------
\* Bounds of the model
\* ------------------------------------------------------------------------
\* Largest number of devices a registry holds.
MaxDevices == 2
\* Largest number of subscriber tasks ever spawned in one behaviour.
MaxTasks == 2
\* Largest number of event batches one broker subscription delivers.
MaxEvents == 2
\* Largest buffer_size handed to start_event_receivers.
MaxBuffer == 2
\* The number of block_device_on_hazards calls made on one Policy.
MaxCalls == 3
\* Largest identifier handed to Hazard::from_id.
MaxHazardId == 30
\* The number of route methods called on one light.
MaxRoutes == 4

\* ------------------------------------------------------------------------
\* Value universes
\* ------------------------------------------------------------------------
\* Option::None for the optional fields (their values are records).
None == [none |-> TRUE]

\* The hazards of tosca::hazards::Hazard the model ranges over.
Hazard == {"FireHazard", "LogEnergyConsumption"}

\* Hazards is a set with value-unique membership (IndexSet).
Hazards == SUBSET Hazard

\* The device identifiers a Policy may carry an override for (usize keys of
\* the HashMap; an identifier need not exist in the registry).
PolicyIds == {0, 1}

\* The hazard sets the overrides of the modelled policies are drawn from.
OverrideSets == {{"FireHazard"}, {"LogEnergyConsumption"}}

\* The Policy values the model ranges over: any global block set and a map
\* id -> block set over any subset of PolicyIds.
Policies ==
  UNION { [block_on_hazards : {g}, block_device_on_hazards : [ids -> OverrideSets]] :
            g \in Hazards, ids \in SUBSET PolicyIds }

\* Route keys a caller may ask for; "/wrong" is on no device.
RouteNames == {"/on", "/off", "/toggle", "/wrong"}

\* The kinds of device the Discovery collaborator reports.
DeviceKinds == {"light", "unknown"}

\* The request descriptors of a device kind: route -> hazards, parameters.
\* The light is the device of the controller tests: /on declares no hazard,
\* /off declares LogEnergyConsumption, /toggle declares FireHazard.
RoutesOf(kind) ==
  IF kind = "light"
    THEN [r \in {"/on", "/off", "/toggle"} |->
            CASE r = "/on"     -> [hazards |-> {}, parameters |-> TRUE]
              [] r = "/off"    -> [hazards |-> {"LogEnergyConsumption"}, parameters |-> FALSE]
              [] r = "/toggle" -> [hazards |-> {"FireHazard"}, parameters |-> TRUE]]
    ELSE [r \in {"/on", "/toggle"} |->
            CASE r = "/on"     -> [hazards |-> {}, parameters |-> FALSE]
              [] r = "/toggle" -> [hazards |-> {"FireHazard", "LogEnergyConsumption"},
                                   parameters |-> FALSE]]

\* Whether a device kind has an event source description (device.events).
HasEvents(kind) == kind = "light"

\* A freshly discovered device: no event task handle, token not cancelled.
NewDevice(kind) ==
  [kind |-> kind, events |-> HasEvents(kind), event_handle |-> 0]

\* Every registry the Discovery collaborator can produce.
Registries ==
  UNION { [1..n -> {NewDevice(k) : k \in DeviceKinds}] : n \in 0..MaxDevices }

\* Outcomes of the external transport call: the success bodies of Response
\* and the transport failure.
SuccessBodies == {"OkBody", "SerialBody", "InfoBody"}
TransportErrors == {"TransportError"}
TransportOutcomes == SuccessBodies \cup TransportErrors

\* ------------------------------------------------------------------------
\* tosca::hazards
\* ------------------------------------------------------------------------
\* Option::Some(value).
Some(value) == [some |-> value]

\* ALL_HAZARDS, in the order of the source.
ALL_HAZARDS ==
  <<"AirPoisoning", "Asphyxia", "AudioVideoDisplay",
    "AudioVideoRecordAndStore", "ElectricEnergyConsumption", "Explosion",
    "FireHazard", "GasConsumption", "LogEnergyConsumption",
    "LogUsageTime", "PaySubscriptionFee", "PowerOutage",
    "PowerSurge", "RecordIssuedCommands", "RecordUserPreferences",
    "SpendMoney", "SpoiledFood", "TakeDeviceScreenshots",
    "TakePictures", "UnauthorisedPhysicalAccess", "VideoDisplay",
    "VideoRecordAndStore", "WaterConsumption", "WaterFlooding">>

\* Hazard::id
hazard_id(hazard) ==
  CASE hazard = "AirPoisoning" -> 0
    [] hazard = "Asphyxia" -> 1
    [] hazard = "AudioVideoDisplay" -> 2
    [] hazard = "AudioVideoRecordAndStore" -> 3
    [] hazard = "ElectricEnergyConsumption" -> 4
    [] hazard = "Explosion" -> 5
    [] hazard = "FireHazard" -> 6
    [] hazard = "GasConsumption" -> 7
    [] hazard = "LogEnergyConsumption" -> 8
    [] hazard = "LogUsageTime" -> 9
    [] hazard = "PaySubscriptionFee" -> 10
    [] hazard = "PowerOutage" -> 11
    [] hazard = "PowerSurge" -> 12
    [] hazard = "RecordIssuedCommands" -> 13
    [] hazard = "RecordUserPreferences" -> 14
    [] hazard = "SpendMoney" -> 15
    [] hazard = "SpoiledFood" -> 16
    [] hazard = "TakeDeviceScreenshots" -> 17
    [] hazard = "TakePictures" -> 18
    [] hazard = "UnauthorisedPhysicalAccess" -> 19
    [] hazard = "VideoDisplay" -> 20
    [] hazard = "VideoRecordAndStore" -> 21
    [] hazard = "WaterConsumption" -> 22
    [] hazard = "WaterFlooding" -> 23

\* Hazard::from_id whose match misses the arm of the last identifier.
from_id_short(id) ==
  CASE id = 0 -> Some("AirPoisoning")
    [] id = 1 -> Some("Asphyxia")
    [] id = 2 -> Some("AudioVideoDisplay")
    [] id = 3 -> Some("AudioVideoRecordAndStore")
    [] id = 4 -> Some("ElectricEnergyConsumption")
    [] id = 5 -> Some("Explosion")
    [] id = 6 -> Some("FireHazard")
    [] id = 7 -> Some("GasConsumption")
    [] id = 8 -> Some("LogEnergyConsumption")
    [] id = 9 -> Some("LogUsageTime")
    [] id = 10 -> Some("PaySubscriptionFee")
    [] id = 11 -> Some("PowerOutage")
    [] id = 12 -> Some("PowerSurge")
    [] id = 13 -> Some("RecordIssuedCommands")
    [] id = 14 -> Some("RecordUserPreferences")
    [] id = 15 -> Some("SpendMoney")
    [] id = 16 -> Some("SpoiledFood")
    [] id = 17 -> Some("TakeDeviceScreenshots")
    [] id = 18 -> Some("TakePictures")
    [] id = 19 -> Some("UnauthorisedPhysicalAccess")
    [] id = 20 -> Some("VideoDisplay")
    [] id = 21 -> Some("VideoRecordAndStore")
    [] id = 22 -> Some("WaterConsumption")
    [] OTHER -> None

\* Hazard::from_id: the match on the u16 identifier.
from_id(id) ==
  CASE id = 0 -> Some("AirPoisoning")
    [] id = 1 -> Some("Asphyxia")
    [] id = 2 -> Some("AudioVideoDisplay")
    [] id = 3 -> Some("AudioVideoRecordAndStore")
    [] id = 4 -> Some("ElectricEnergyConsumption")
    [] id = 5 -> Some("Explosion")
    [] id = 6 -> Some("FireHazard")
    [] id = 7 -> Some("GasConsumption")
    [] id = 8 -> Some("LogEnergyConsumption")
    [] id = 9 -> Some("LogUsageTime")
    [] id = 10 -> Some("PaySubscriptionFee")
    [] id = 11 -> Some("PowerOutage")
    [] id = 12 -> Some("PowerSurge")
    [] id = 13 -> Some("RecordIssuedCommands")
    [] id = 14 -> Some("RecordUserPreferences")
    [] id = 15 -> Some("SpendMoney")
    [] id = 16 -> Some("SpoiledFood")
    [] id = 17 -> Some("TakeDeviceScreenshots")
    [] id = 18 -> Some("TakePictures")
    [] id = 19 -> Some("UnauthorisedPhysicalAccess")
    [] id = 20 -> Some("VideoDisplay")
    [] id = 21 -> Some("VideoRecordAndStore")
    [] id = 22 -> Some("WaterConsumption")
    [] id = 23 -> Some("WaterFlooding")
    [] OTHER -> None

\* No call of Hazard::id or Hazard::from_id was made yet.
NoHazardCall ==
  [hazard |-> None, hazard_id |-> 0, called |-> FALSE, id |-> 0, found |-> None]

\* ------------------------------------------------------------------------
\* tosca-drivers: bh1750.rs
\* ------------------------------------------------------------------------
MTREG_HIGH == 64
MTREG_LOW == 96
MTREG_MIN == 31
MTREG_MAX == 254
DEFAULT_MTREG == 69

\* The u8 values handed to set_mtreg: both ends of the range, the limits of
\* the clamp and their neighbours, the default and a value in between.
MtregInputs == {0, 30, 31, 32, 69, 128, 253, 254, 255}

\* Resolution
Resolution == {"High", "High2", "Low"}

\* The bitwise operators of u8: a & b, a | b and a >> n.
RECURSIVE BitAnd(_, _)
BitAnd(a, b) ==
  IF a = 0 \/ b = 0 THEN 0
  ELSE (IF (a % 2) = 1 /\ (b % 2) = 1 THEN 1 ELSE 0) + 2 * BitAnd(a \div 2, b \div 2)

RECURSIVE BitOr(_, _)
BitOr(a, b) ==
  IF a = 0 THEN b
  ELSE IF b = 0 THEN a
  ELSE (IF (a % 2) = 1 \/ (b % 2) = 1 THEN 1 ELSE 0) + 2 * BitOr(a \div 2, b \div 2)

ShiftRight(a, n) == a \div (2 ^ n)

\* u8::clamp(min, max)
clamp(value, min, max) ==
  IF value < min THEN min ELSE IF value > max THEN max ELSE value

\* Resolution::continuous_measurement_opcode
continuous_measurement_opcode(res) ==
  CASE res = "High" -> 16 [] res = "High2" -> 17 [] res = "Low" -> 19

\* Resolution::default_measurement_time_ms
default_measurement_time_ms(res) ==
  CASE res = "High" -> 120 [] res = "High2" -> 120 [] res = "Low" -> 16

\* Bh1750::measurement_time_ms; the product is at most 120 * 255 and cannot
\* wrap in u32.
measurement_time_ms(drv, res) ==
  (default_measurement_time_ms(res) * drv.mtreg) \div DEFAULT_MTREG

\* Bh1750::new; `op`, `arg`, `result`, `i2c` and `delay` tell what the last
\* call was, what it returned and the bus transactions and delays it made.
Bh1750New ==
  [mtreg |-> DEFAULT_MTREG, continuous_resolution |-> "None",
   op |-> "new", arg |-> 0, result |-> "Ok", i2c |-> <<>>, delay |-> <<>>]

\* Bh1750::send_instruction: one write of one byte, which the bus accepts
\* or not.
send_instruction(instr, ok) == [kind |-> "write", byte |-> instr, ok |-> ok]

\* set_mtreg that stores the value before it writes it.
set_mtreg_stores_early(drv, mtreg, fail) ==
  LET mt == clamp(mtreg, MTREG_MIN, MTREG_MAX)
      high == BitOr(MTREG_HIGH, ShiftRight(mt, 5))
      low == BitOr(MTREG_LOW, BitAnd(mt, 31))
      called == [drv EXCEPT !.op = "set_mtreg", !.arg = mtreg, !.delay = <<>>,
                            !.mtreg = mt]
  IN IF fail = 1
       THEN [called EXCEPT !.result = "I2c",
                           !.i2c = <<send_instruction(high, FALSE)>>]
     ELSE IF fail = 2
       THEN [called EXCEPT !.result = "I2c",
                           !.i2c = <<send_instruction(high, TRUE),
                                     send_instruction(low, FALSE)>>]
     ELSE [called EXCEPT !.result = "Ok",
                         !.i2c = <<send_instruction(high, TRUE),
                                   send_instruction(low, TRUE)>>]

\* Bh1750::set_mtreg; `fail` is the write the bus refuses, 0 when none.
set_mtreg(drv, mtreg, fail) ==
  LET mt == clamp(mtreg, MTREG_MIN, MTREG_MAX)
      high == BitOr(MTREG_HIGH, ShiftRight(mt, 5))
      low == BitOr(MTREG_LOW, BitAnd(mt, 31))
      called == [drv EXCEPT !.op = "set_mtreg", !.arg = mtreg, !.delay = <<>>]
  IN IF fail = 1
       THEN [called EXCEPT !.result = "I2c",
                           !.i2c = <<send_instruction(high, FALSE)>>]
     ELSE IF fail = 2
       THEN [called EXCEPT !.result = "I2c",
                           !.i2c = <<send_instruction(high, TRUE),
                                     send_instruction(low, FALSE)>>]
     ELSE [called EXCEPT !.result = "Ok", !.mtreg = mt,
                         !.i2c = <<send_instruction(high, TRUE),
                                   send_instruction(low, TRUE)>>]

\* Bh1750::start_continuous_measurement
start_continuous_measurement(drv, res, ok) ==
  LET called == [drv EXCEPT !.op = "start_continuous_measurement", !.arg = 0,
                            !.delay = <<>>,
                            !.i2c = <<send_instruction(
                                        continuous_measurement_opcode(res), ok)>>]
  IN IF ok THEN [called EXCEPT !.result = "Ok", !.continuous_resolution = res]
           ELSE [called EXCEPT !.result = "I2c"]

\* read_continuous_measurement that reads with the High resolution when no
\* continuous measurement was started.
read_continuous_measurement_no_check(drv, ok) ==
  LET res == IF drv.continuous_resolution = "None" THEN "High"
             ELSE drv.continuous_resolution
  IN [drv EXCEPT !.op = "read_continuous_measurement", !.arg = 0,
                 !.delay = <<measurement_time_ms(drv, res)>>,
                 !.i2c = <<[kind |-> "read", byte |-> 0, ok |-> ok]>>,
                 !.result = IF ok THEN "Ok" ELSE "I2c"]

\* Bh1750::read_continuous_measurement; `ok` tells whether the bus answers
\* the read of the two data bytes.
read_continuous_measurement(drv, ok) ==
  LET called == [drv EXCEPT !.op = "read_continuous_measurement", !.arg = 0]
  IN IF drv.continuous_resolution = "None"
       THEN [called EXCEPT !.result = "ContinuousMeasurementNotStarted",
                           !.i2c = <<>>, !.delay = <<>>]
       ELSE [called EXCEPT
               !.delay = <<measurement_time_ms(drv, drv.continuous_resolution)>>,
               !.i2c = <<[kind |-> "read", byte |-> 0, ok |-> ok]>>,
               !.result = IF ok THEN "Ok" ELSE "I2c"]

\* ------------------------------------------------------------------------
\* tosca-drivers: dht22.rs
\* ------------------------------------------------------------------------
MAX_ATTEMPTS == 100

PinState == {"High", "Low"}

\* The number of wait_until_state calls of one read: two of
\* wait_for_sensor_response, then two for each of the 8 bits of the 5 bytes.
ReadWaits == 2 + 5 * 8 * 2

\* The state the wait at position k of read waits for.
WantedAt(k) == IF (k % 2) = 1 THEN "Low" ELSE "High"

\* Dht22::new: no read is running. `polls` counts the polls of the wait in
\* progress.
Dht22New == [pc |-> "idle", wait |-> 0, polls |-> 0, result |-> ""]

\* wait_until_state whose range is 0..=MAX_ATTEMPTS.
wait_until_state_inclusive(polls, state, level) ==
  IF level = state THEN "Ok"
  ELSE IF polls + 1 >= MAX_ATTEMPTS + 1 THEN "Timeout"
  ELSE "Again"

\* Dht22::wait_until_state, one turn of its loop after `polls` earlier
\* turns: the pin is read at `level`; the wait returns Ok when that is the
\* wanted state, waits POLL_DELAY_US and goes on otherwise, and returns
\* Timeout when the range 0..MAX_ATTEMPTS is used up.
wait_until_state(polls, state, level) ==
  IF level = state THEN "Ok"
  ELSE IF polls + 1 >= MAX_ATTEMPTS THEN "Timeout"
  ELSE "Again"

\* ------------------------------------------------------------------------
\* tosca-esp32c3: devices/light.rs
\* ------------------------------------------------------------------------
\* The hazards a light may declare.
ALLOWED_HAZARDS == {"FireHazard", "ElectricEnergyConsumption"}

\* The routes handed to the builder: path, REST method and declared hazards.
LightRoutes ==
  { [path |-> "/on",     rest_kind |-> "Put", hazards |-> {"FireHazard"}],
    [path |-> "/off",    rest_kind |-> "Put", hazards |-> {"LogEnergyConsumption"}],
    [path |-> "/toggle", rest_kind |-> "Get", hazards |-> {}] }

\* FuncType, in the order of the vectors of Functions.
FuncType ==
  <<"OkStateless", "OkStateful", "SerialStateless", "SerialStateful",
    "InfoStateless", "InfoStateful">>

\* The position in Functions of the vector of a FuncType.
FunctionsSlot(func_type) == CHOOSE k \in DOMAIN FuncType : FuncType[k] = func_type

\* FuncIndex::new
FuncIndex(func_type, index) == [func_type |-> func_type, index |-> index]

\* The route configuration route_func_manager makes of a route: the
\* prohibited hazards are removed and the response kind is set.
RouteConfig(route, response_kind) ==
  [path |-> route.path, rest_kind |-> route.rest_kind,
   hazards |-> route.hazards \cap ALLOWED_HAZARDS,
   response_kind |-> response_kind]

\* RouteConfigs compares two configurations by path and REST method.
SameRoute(a, b) == a.path = b.path /\ a.rest_kind = b.rest_kind

\* RouteConfigs::contains
contains(route_configs, route_config) ==
  \E k \in DOMAIN route_configs : SameRoute(route_configs[k], route_config)

\* RouteConfigs::add: an insertion-ordered set, the new element goes last.
add(route_configs, route_config) ==
  IF contains(route_configs, route_config) THEN route_configs
  ELSE Append(route_configs, route_config)

\* CompleteLight::with_state: no route, no handler, no index.
with_state ==
  [route_configs |-> <<>>,
   routes_functions |-> [k \in DOMAIN FuncType |-> <<>>],
   index_array |-> <<>>,
   calls |-> 0]

\* The closure the six route methods hand to route_func_manager: the handler
\* is pushed on the vector of its type and a FuncIndex with the position it
\* got is pushed on index_array.
add_async_function(func_manager, func_type, func) ==
  LET slot == FunctionsSlot(func_type)
      pushed == Append(func_manager.routes_functions[slot], func)
  IN [func_manager EXCEPT
        !.routes_functions = [@ EXCEPT ![slot] = pushed],
        !.index_array = Append(@, FuncIndex(func_type, Len(pushed) - 1))]

\* route_func_manager that goes on after it found the configuration in the
\* set.
route_func_manager_no_return(self, route, response_kind, func_type, func) ==
  LET route_config == RouteConfig(route, response_kind) IN
  add_async_function(
    [self EXCEPT !.route_configs = add(@, route_config)], func_type, func)

\* CompleteLight::route_func_manager: a configuration already in the set is
\* logged and the light is returned as it is; otherwise the configuration
\* is added and the closure is run.
route_func_manager(self, route, response_kind, func_type, func) ==
  LET route_config == RouteConfig(route, response_kind) IN
  IF contains(self.route_configs, route_config)
    THEN self
    ELSE add_async_function(
           [self EXCEPT !.route_configs = add(@, route_config)], func_type, func)

\* CompleteLight::stateless_ok_route
stateless_ok_route(self, route, func) ==
  route_func_manager(self, route, "Ok", "OkStateless", func)

\* CompleteLight::stateful_ok_route
stateful_ok_route(self, route, func) ==
  route_func_manager(self, route, "Ok", "OkStateful", func)

\* CompleteLight::stateless_serial_route
stateless_serial_route(self, route, func) ==
  route_func_manager(self, route, "Serial", "SerialStateless", func)

\* CompleteLight::stateful_serial_route
stateful_serial_route(self, route, func) ==
  route_func_manager(self, route, "Serial", "SerialStateful", func)

\* CompleteLight::stateless_info_route
stateless_info_route(self, route, func) ==
  route_func_manager(self, route, "Info", "InfoStateless", func)

\* CompleteLight::stateful_info_route
stateful_info_route(self, route, func) ==
  route_func_manager(self, route, "Info", "InfoStateful", func)

\* ------------------------------------------------------------------------
\* State
\* ------------------------------------------------------------------------
VARIABLES
  devices,         \* Controller.devices, index = device id + 1
  privacy_policy,  \* Controller.privacy_policy
  sender,          \* the RequestSender in the caller's hands, or None
  last,            \* what the last operation did and returned
  tasks,           \* every subscriber task spawned so far, in spawn order
  channels,        \* the shared queues created by start_event_receivers
  shutdown_pc,     \* the position of Controller::shutdown
  builder,         \* the Policy the caller is building, or None
  hazard_obs,      \* the last Hazard::id and Hazard::from_id calls
  bh1750,          \* the Bh1750 driver and what its last call did
  dht22,           \* the position of Dht22::read
  light            \* the CompleteLight under construction

vars ==
  <<devices, privacy_policy, sender, last, tasks, channels, shutdown_pc, builder,
    hazard_obs, bh1750, dht22, light>>
libraryVars == <<hazard_obs, bh1750, dht22, light>>
gateVars == <<devices, privacy_policy, sender>>
eventVars == <<tasks, channels, shutdown_pc>>

\* ------------------------------------------------------------------------
\* policy.rs
\* ------------------------------------------------------------------------
\* Policy::init with every hazard in the global block set.
init_blocks_all == [block_on_hazards |-> Hazard, block_device_on_hazards |-> <<>>]

\* Policy::init
init == [block_on_hazards |-> {}, block_device_on_hazards |-> <<>>]

\* Policy::new
new(block_on_hazards) ==
  [block_on_hazards |-> block_on_hazards, block_device_on_hazards |-> <<>>]

\* block_device_on_hazards that keeps the override an id already has.
block_device_on_hazards_keeps_first(policy, id, hazards) ==
  [policy EXCEPT !.block_device_on_hazards = @ @@ (id :> hazards)]

\* Policy::block_device_on_hazards: HashMap::insert puts the entry in place
\* of the one the id had.
block_device_on_hazards(policy, id, hazards) ==
  [policy EXCEPT !.block_device_on_hazards = (id :> hazards) @@ @]

\* Policy::only_local_policy
only_local_policy(id, hazards) == block_device_on_hazards(init, id, hazards)

\* Policy::global_blocked_hazards: the loop over the request's hazards.
RECURSIVE global_blocked_hazards(_, _)
global_blocked_hazards(policy, hazards) ==
  IF hazards = {} THEN {}
  ELSE LET hazard == CHOOSE h \in hazards : TRUE
           blocked_hazards == global_blocked_hazards(policy, hazards \ {hazard})
       IN IF hazard \in policy.block_on_hazards
            THEN blocked_hazards \cup {hazard}
            ELSE blocked_hazards

\* The loop of local_blocked_hazards over the request's hazards.
RECURSIVE local_loop(_, _)
local_loop(local_hazards, hazards) ==
  IF hazards = {} THEN {}
  ELSE LET hazard == CHOOSE h \in hazards : TRUE
           blocked_hazards == local_loop(local_hazards, hazards \ {hazard})
       IN IF hazard \in local_hazards
            THEN blocked_hazards \cup {hazard}
            ELSE blocked_hazards

\* local_blocked_hazards that looks the hazards up in the overrides of all
\* the devices.
local_blocked_hazards_any_device(policy, id, hazards) ==
  local_loop(UNION {policy.block_device_on_hazards[d] :
                      d \in DOMAIN policy.block_device_on_hazards}, hazards)

\* Policy::local_blocked_hazards
local_blocked_hazards(policy, id, hazards) ==
  IF id \in DOMAIN policy.block_device_on_hazards
    THEN local_loop(policy.block_device_on_hazards[id], hazards)
    ELSE {}

\* ------------------------------------------------------------------------
\* controller.rs: the senders
\* ------------------------------------------------------------------------
\* evaluate_privacy_policy that looks at the device's override only.
evaluate_privacy_policy_local_only(policy, id, hazards) ==
  local_blocked_hazards(policy, id, hazards) # {}

\* evaluate_privacy_policy without the local rule.
evaluate_privacy_policy_global_only(policy, id, hazards) ==
  global_blocked_hazards(policy, hazards) # {}

\* DeviceSender::evaluate_privacy_policy
evaluate_privacy_policy(policy, id, hazards) ==
  LET skip0 == FALSE
      skip1 == IF global_blocked_hazards(policy, hazards) # {} THEN TRUE ELSE skip0
      skip2 == IF local_blocked_hazards(policy, id, hazards) # {} THEN TRUE ELSE skip1
  IN skip2

\* sender_error: an Error of kind Sender with the given text.
sender_error(error) == [kind |-> "Sender", info |-> error]

\* Device::request(route): the descriptor stored under the route key, if any.
device_request(device, route) ==
  IF route \in DOMAIN RoutesOf(device.kind) THEN RoutesOf(device.kind)[route] ELSE None

\* request that answers an unknown route with a sender for an empty request.
request_default_on_missing(policy, device, id, route) ==
  LET req == device_request(device, route) IN
  IF req = None
    THEN [error |-> None, request |-> [hazards |-> {}, parameters |-> FALSE],
          skip |-> FALSE, evaluated |-> FALSE]
    ELSE [error |-> None,
          request |-> req,
          skip |-> IF req.hazards = {} THEN FALSE
                   ELSE evaluate_privacy_policy(policy, id, req.hazards),
          evaluated |-> req.hazards # {}]

\* request without the fast path for a route that declares no hazard.
request_no_fast_path(policy, device, id, route) ==
  LET req == device_request(device, route) IN
  IF req = None
    THEN [error |-> sender_error("Error in retrieving the request with route."),
          request |-> None, skip |-> FALSE, evaluated |-> FALSE]
    ELSE [error |-> None,
          request |-> req,
          skip |-> evaluate_privacy_policy(policy, id, req.hazards),
          evaluated |-> TRUE]

\* DeviceSender::request: the route lookup, the fast path for a route without
\* hazards, the policy evaluation otherwise. `evaluated` tells whether
\* evaluate_privacy_policy was called.
request(policy, device, id, route) ==
  LET req == device_request(device, route) IN
  IF req = None
    THEN [error |-> sender_error("Error in retrieving the request with route."),
          request |-> None, skip |-> FALSE, evaluated |-> FALSE]
    ELSE [error |-> None,
          request |-> req,
          skip |-> IF req.hazards = {} THEN FALSE
                   ELSE evaluate_privacy_policy(policy, id, req.hazards),
          evaluated |-> req.hazards # {}]

\* device whose range check accepts the index one past the end.
device_off_by_one(devs, id) ==
  IF Len(devs) = 0
    THEN [error |-> sender_error("No devices found."), id |-> id]
    ELSE IF id \in 0..Len(devs)
      THEN [error |-> None, id |-> id]
      ELSE [error |-> sender_error("Error in retrieving the device with identifier."),
            id |-> id]

\* device without the empty-registry check.
device_no_empty_check(devs, id) ==
  IF id + 1 \in DOMAIN devs
    THEN [error |-> None, id |-> id]
    ELSE [error |-> sender_error("Error in retrieving the device with identifier."),
          id |-> id]

\* Controller::device: the empty-registry check, then Devices::get(id).
device(devs, id) ==
  IF Len(devs) = 0
    THEN [error |-> sender_error("No devices found."), id |-> id]
    ELSE IF id + 1 \in DOMAIN devs
      THEN [error |-> None, id |-> id]
      ELSE [error |-> sender_error("Error in retrieving the device with identifier."),
            id |-> id]

\* Request::retrieve_response(skip, call): Skipped without running the call
\* when skip holds, the outcome of the transport call otherwise. `transport`
\* lists the transport calls made.
retrieve_response(skip, call, outcome) ==
  IF skip THEN [result |-> "Skipped", transport |-> <<>>]
          ELSE [result |-> outcome, transport |-> <<call>>]

\* send that makes the call a second time when the transport reports an error.
send_retries(s, outcome) ==
  IF s.skip THEN [result |-> "Skipped", transport |-> <<>>]
  ELSE IF outcome \in TransportErrors
    THEN [result |-> outcome, transport |-> <<"plain_send", "plain_send">>]
    ELSE [result |-> outcome, transport |-> <<"plain_send">>]

\* send that hands the call to the transport whatever the cached decision.
send_ignores_skip(s, outcome) == retrieve_response(FALSE, "plain_send", outcome)

\* send that evaluates the Controller's present policy instead of using the
\* decision cached in the sender.
send_reevaluates(s, outcome) ==
  retrieve_response(s.request.hazards # {}
                      /\ evaluate_privacy_policy(privacy_policy, s.id, s.request.hazards),
                    "plain_send", outcome)

\* RequestSender::send
send(s, outcome) == retrieve_response(s.skip, "plain_send", outcome)

\* send_with_parameters that sends the values whatever the route declares.
send_with_parameters_always_values(s, outcome) ==
  retrieve_response(s.skip, "create_response", outcome)

\* RequestSender::send_with_parameters
send_with_parameters(s, outcome) ==
  IF ~s.request.parameters
    THEN send(s, outcome)
    ELSE retrieve_response(s.skip, "create_response", outcome)

\* ------------------------------------------------------------------------
\* The observation of the last operation
\* ------------------------------------------------------------------------
\* `bound` is the index of the device a DeviceSender was bound to, -1 when
\* none was; `policy` is the Policy handed to change_policy.
NoObs ==
  [op |-> "new", id |-> 0, route |-> "", error |-> None, result |-> "",
   skip |-> FALSE, evaluated |-> FALSE, transport |-> <<>>,
   spawned |-> 0, receiver |-> 0, bound |-> -1, policy |-> None]

\* The Controller value still exists (shutdown consumes it).
Alive == shutdown_pc.phase = "idle"

\* ------------------------------------------------------------------------
\* controller.rs: construction and the request path
\* ------------------------------------------------------------------------
\* Controller::new: empty registry, Policy::init, nothing spawned.
Init ==
  /\ devices = <<>>
  /\ privacy_policy = init
  /\ sender = None
  /\ last = NoObs
  /\ tasks = <<>>
  /\ channels = <<>>
  /\ shutdown_pc = [phase |-> "idle", i |-> 0]
  /\ builder = None
  /\ hazard_obs = NoHazardCall
  /\ bh1750 = Bh1750New
  /\ dht22 = Dht22New
  /\ light = with_state

\* A discover that empties the registry before it asks the Discovery, so
\* that a failure leaves no device.
discover_clears_first ==
  /\ Alive
  /\ \E failed \in BOOLEAN :
       IF failed
         THEN /\ devices' = <<>>
              /\ tasks' = [t \in DOMAIN tasks |-> [tasks[t] EXCEPT !.current = FALSE]]
              /\ last' = [NoObs EXCEPT !.op = "discover",
                                       !.error = [kind |-> "Discovery", info |-> ""]]
         ELSE /\ \E found \in Registries : devices' = found
              /\ tasks' = [t \in DOMAIN tasks |-> [tasks[t] EXCEPT !.current = FALSE]]
              /\ last' = [NoObs EXCEPT !.op = "discover"]
  /\ UNCHANGED <<privacy_policy, sender, channels, shutdown_pc, builder, libraryVars>>

\* A discover that cancels the tokens of the devices it replaces.
discover_cancels_tasks ==
  /\ Alive
  /\ \E failed \in BOOLEAN :
       IF failed
         THEN /\ UNCHANGED <<devices, tasks>>
              /\ last' = [NoObs EXCEPT !.op = "discover",
                                       !.error = [kind |-> "Discovery", info |-> ""]]
         ELSE /\ \E found \in Registries : devices' = found
              /\ tasks' = [t \in DOMAIN tasks |->
                             [tasks[t] EXCEPT !.current = FALSE,
                                              !.cancelled = @ \/ tasks[t].current]]
              /\ last' = [NoObs EXCEPT !.op = "discover"]
  /\ UNCHANGED <<privacy_policy, sender, channels, shutdown_pc, builder, libraryVars>>

\* Controller::discover: a successful discovery replaces the registry; a
\* failed one returns the error at the `?` and assigns nothing. The handles
\* and tokens of the old devices are dropped with them: their tasks are no
\* longer bound to the registry.
discover ==
  /\ Alive
  /\ \E failed \in BOOLEAN :
       IF failed
         THEN /\ UNCHANGED <<devices, tasks>>
              /\ last' = [NoObs EXCEPT !.op = "discover",
                                       !.error = [kind |-> "Discovery", info |-> ""]]
         ELSE /\ \E found \in Registries : devices' = found
              /\ tasks' = [t \in DOMAIN tasks |-> [tasks[t] EXCEPT !.current = FALSE]]
              /\ last' = [NoObs EXCEPT !.op = "discover"]
  /\ UNCHANGED <<privacy_policy, sender, channels, shutdown_pc, builder, libraryVars>>

\* A change_policy that takes the global block set of the new policy and
\* keeps the overrides of the old one.
change_policy_keeps_overrides(policy) ==
  /\ Alive
  /\ policy # privacy_policy
  /\ privacy_policy' = [policy EXCEPT !.block_device_on_hazards =
                                         privacy_policy.block_device_on_hazards]
  /\ last' = [NoObs EXCEPT !.op = "change_policy", !.policy = policy]
  /\ UNCHANGED <<devices, sender, eventVars, builder, libraryVars>>

\* Controller::change_policy. The senders are values carrying their cached
\* decision; the model lets one survive the replacement of the policy (the
\* Rust borrow rules allow fewer interleavings than the model).
change_policy_with(policy) ==
  /\ Alive
  /\ policy # privacy_policy
  /\ privacy_policy' = policy
  /\ last' = [NoObs EXCEPT !.op = "change_policy", !.policy = policy]
  /\ UNCHANGED <<devices, sender, eventVars, builder, libraryVars>>

\* The caller changes the policy to any Policy value.
change_policy ==
  \E policy \in Policies : change_policy_with(policy)

\* A call of Controller::device(id) that the caller does not follow up.
device_call ==
  /\ Alive
  /\ \E id \in 0..MaxDevices :
       LET r == device(devices, id) IN
       last' = [NoObs EXCEPT !.op = "device", !.id = id, !.error = r.error,
                             !.bound = IF r.error = None THEN r.id ELSE -1]
  /\ UNCHANGED <<gateVars, eventVars, builder, libraryVars>>

\* Controller::device(id) followed by DeviceSender::request(route). A found
\* route leaves the RequestSender in the caller's hands.
request_call ==
  /\ Alive
  /\ \E id \in 0..(Len(devices) - 1), route \in RouteNames :
       LET r == request(privacy_policy, devices[id + 1], id, route) IN
       /\ device(devices, id).error = None
       /\ sender' = IF r.error = None
                      THEN [id |-> id, route |-> route, request |-> r.request,
                            skip |-> r.skip]
                      ELSE sender
       /\ last' = [NoObs EXCEPT !.op = "request", !.id = id, !.route = route,
                                !.error = r.error, !.skip = r.skip,
                                !.evaluated = r.evaluated]
  /\ UNCHANGED <<devices, privacy_policy, eventVars, builder, libraryVars>>

\* RequestSender::send on the sender in the caller's hands.
send_call ==
  /\ Alive
  /\ sender # None
  /\ \E outcome \in TransportOutcomes :
       LET r == send(sender, outcome) IN
       last' = [NoObs EXCEPT !.op = "send", !.id = sender.id,
                             !.route = sender.route, !.skip = sender.skip,
                             !.result = r.result, !.transport = r.transport]
  /\ UNCHANGED <<gateVars, eventVars, builder, libraryVars>>

\* RequestSender::send_with_parameters on the sender in the caller's hands.
send_with_parameters_call ==
  /\ Alive
  /\ sender # None
  /\ \E outcome \in TransportOutcomes :
       LET r == send_with_parameters(sender, outcome) IN
       last' = [NoObs EXCEPT !.op = "send_with_parameters", !.id = sender.id,
                             !.route = sender.route, !.skip = sender.skip,
                             !.result = r.result, !.transport = r.transport]
  /\ UNCHANGED <<gateVars, eventVars, builder, libraryVars>>

\* The request path of the Controller.
Next ==
  \/ discover
  \/ change_policy
  \/ device_call
  \/ request_call
  \/ send_call
  \/ send_with_parameters_call

Spec == Init /\ [][Next]_vars

\* ------------------------------------------------------------------------
\* events.rs: the subscriber task of the fan-in mode
\* ------------------------------------------------------------------------
\* What eventloop.poll() can yield: a connection error, an outgoing packet,
\* an incoming packet that is not a publish, and a publish whose payload is
\* not JSON of the event schema, is the JSON null, or is an event batch.
BrokerEvents ==
  { [result |-> "Err", direction |-> "",         packet |-> "",        payload |-> ""],
    [result |-> "Ok",  direction |-> "Outgoing", packet |-> "PingReq", payload |-> ""],
    [result |-> "Ok",  direction |-> "Incoming", packet |-> "PingResp", payload |-> ""],
    [result |-> "Ok",  direction |-> "Incoming", packet |-> "Publish", payload |-> "garbage"],
    [result |-> "Ok",  direction |-> "Incoming", packet |-> "Publish", payload |-> "null"],
    [result |-> "Ok",  direction |-> "Incoming", packet |-> "Publish", payload |-> "events"] }

\* parse_event that takes any publish payload for an event batch.
parse_event_lenient(event) ==
  IF event.result = "Err" THEN None
  ELSE IF event.direction = "Outgoing" THEN None
  ELSE IF event.packet # "Publish" THEN None
  ELSE [events |-> event.payload]

\* parse_event: Some(events) only for a publish packet that decodes to an
\* event batch (the payload is decoded as an Option, so null gives None).
parse_event(event) ==
  IF event.result = "Err" THEN None
  ELSE IF event.direction = "Outgoing" THEN None
  ELSE IF event.packet # "Publish" THEN None
  ELSE IF event.payload = "garbage" THEN None
  ELSE IF event.payload = "null" THEN None
  ELSE [events |-> event.payload]

\* A payload tagged with the order in which the tasks were spawned instead
\* of the id the task was given.
EventPayload_by_spawn_order(t) ==
  [device_id |-> t - 1, events |-> <<t, tasks[t].n>>]

\* EventPayload::new(id, events) of the n-th decoded batch of task t.
EventPayload(t) ==
  [device_id |-> tasks[t].id, events |-> <<t, tasks[t].n>>]

\* The task spawned by run_global_subscriber for device id on channel c: it
\* holds a clone of the device's token and of the sender. `blocked` tells
\* that the push in progress found the queue full, `mid_poll` that the poll
\* the task was waiting in when its token was cancelled has not returned.
NewTask(id, c) ==
  [id |-> id, chan |-> c, current |-> TRUE, cancelled |-> FALSE,
   pc |-> "Polling", n |-> 0, blocked |-> FALSE, mid_poll |-> FALSE]

\* The queue of channel c has a living receiver and no room.
QueueFull(c) ==
  channels[c].rx = "alive" /\ Len(channels[c].queue) = channels[c].cap

\* A loop that looks at its token only between two polls: the poll that was
\* pending when the token was cancelled has to return first.
task_cancelled_after_poll(t) ==
  /\ t \in DOMAIN tasks
  /\ tasks[t].pc = "Polling"
  /\ tasks[t].cancelled
  /\ ~tasks[t].mid_poll
  /\ tasks' = [tasks EXCEPT ![t].pc = "Stopped"]
  /\ UNCHANGED <<gateVars, last, channels, shutdown_pc, builder, libraryVars>>

\* run_global_event_subscriber, the cancelled() branch of the select.
task_cancelled(t) ==
  /\ t \in DOMAIN tasks
  /\ tasks[t].pc = "Polling"
  /\ tasks[t].cancelled
  /\ tasks' = [tasks EXCEPT ![t].pc = "Stopped"]
  /\ UNCHANGED <<gateVars, last, channels, shutdown_pc, builder, libraryVars>>

\* The poll branch of a task that keeps its event loop after the loop
\* ended and polls from Stopped too.
task_poll_event_after_stop(t, event) ==
  /\ t \in DOMAIN tasks
  /\ tasks[t].pc \in {"Polling", "Stopped"}
  /\ IF parse_event(event) = None
       THEN tasks' = [tasks EXCEPT ![t].mid_poll = FALSE]
       ELSE /\ tasks[t].n < MaxEvents
            /\ tasks' = [tasks EXCEPT ![t].n = @ + 1, ![t].pc = "Sending",
                                      ![t].mid_poll = FALSE,
                                      ![t].blocked = QueueFull(tasks[t].chan)]
  /\ UNCHANGED <<gateVars, last, channels, shutdown_pc, builder, libraryVars>>

\* The poll branch of a loop that looks at the receiver before it looks at
\* the item: it stops as soon as the receiver is gone.
task_poll_event_checks_receiver(t, event) ==
  /\ t \in DOMAIN tasks
  /\ tasks[t].pc = "Polling"
  /\ IF channels[tasks[t].chan].rx # "alive"
       THEN tasks' = [tasks EXCEPT ![t].pc = "Stopped"]
       ELSE IF parse_event(event) = None
         THEN tasks' = [tasks EXCEPT ![t].mid_poll = FALSE]
         ELSE /\ tasks[t].n < MaxEvents
              /\ tasks' = [tasks EXCEPT ![t].n = @ + 1, ![t].pc = "Sending",
                                        ![t].mid_poll = FALSE,
                                        ![t].blocked = QueueFull(tasks[t].chan)]
  /\ UNCHANGED <<gateVars, last, channels, shutdown_pc, builder, libraryVars>>

\* run_global_event_subscriber, the eventloop.poll() branch of the select up
\* to the push: an item parse_event rejects is discarded and the loop goes
\* on, a decoded batch (the n-th of this subscription) is handed to
\* sender.send.
task_poll_event(t, event) ==
  /\ t \in DOMAIN tasks
  /\ tasks[t].pc = "Polling"
  /\ IF parse_event(event) = None
       THEN tasks' = [tasks EXCEPT ![t].mid_poll = FALSE]
       ELSE /\ tasks[t].n < MaxEvents
            /\ tasks' = [tasks EXCEPT ![t].n = @ + 1, ![t].pc = "Sending",
                                      ![t].mid_poll = FALSE,
                                      ![t].blocked = QueueFull(tasks[t].chan)]
  /\ UNCHANGED <<gateVars, last, channels, shutdown_pc, builder, libraryVars>>

\* One turn of the loop with whatever eventloop.poll() returns.
task_poll(t) == \E event \in BrokerEvents : task_poll_event(t, event)

\* sender.send that never waits: a payload that finds the queue full is lost.
task_send_lossy(t) ==
  /\ t \in DOMAIN tasks
  /\ tasks[t].pc = "Sending"
  /\ LET c == tasks[t].chan IN
       IF channels[c].rx # "alive"
         THEN /\ tasks' = [tasks EXCEPT ![t].pc = "Stopped", ![t].blocked = FALSE]
              /\ UNCHANGED channels
         ELSE /\ channels' = IF Len(channels[c].queue) < channels[c].cap
                               THEN [channels EXCEPT ![c].queue = Append(@, EventPayload(t))]
                               ELSE channels
              /\ tasks' = [tasks EXCEPT ![t].pc = "Polling", ![t].blocked = FALSE]
  /\ UNCHANGED <<gateVars, last, shutdown_pc, builder, libraryVars>>

\* A push that puts the payload in front of the payloads already queued.
task_send_front(t) ==
  /\ t \in DOMAIN tasks
  /\ tasks[t].pc = "Sending"
  /\ LET c == tasks[t].chan IN
       IF channels[c].rx # "alive"
         THEN /\ tasks' = [tasks EXCEPT ![t].pc = "Stopped", ![t].blocked = FALSE]
              /\ UNCHANGED channels
         ELSE /\ Len(channels[c].queue) < channels[c].cap
              /\ channels' = [channels EXCEPT ![c].queue = <<EventPayload(t)>> \o @]
              /\ tasks' = [tasks EXCEPT ![t].pc = "Polling", ![t].blocked = FALSE]
  /\ UNCHANGED <<gateVars, last, shutdown_pc, builder, libraryVars>>

\* run_global_event_subscriber, sender.send(..).await: it fails when the
\* receiver is gone (the loop breaks), it completes when the queue has room,
\* and it stays pending while the queue is full.
task_send(t) ==
  /\ t \in DOMAIN tasks
  /\ tasks[t].pc = "Sending"
  /\ LET c == tasks[t].chan IN
       IF channels[c].rx # "alive"
         THEN /\ tasks' = [tasks EXCEPT ![t].pc = "Stopped", ![t].blocked = FALSE]
              /\ UNCHANGED channels
         ELSE /\ Len(channels[c].queue) < channels[c].cap
              /\ channels' = [channels EXCEPT ![c].queue = Append(@, EventPayload(t))]
              /\ tasks' = [tasks EXCEPT ![t].pc = "Polling", ![t].blocked = FALSE]
  /\ UNCHANGED <<gateVars, last, shutdown_pc, builder, libraryVars>>

\* The consumer takes the oldest payload out of the shared queue.
recv(c) ==
  /\ c \in DOMAIN channels
  /\ channels[c].rx = "alive"
  /\ channels[c].queue # <<>>
  /\ channels' = [channels EXCEPT ![c].queue = Tail(@)]
  /\ UNCHANGED <<gateVars, last, tasks, shutdown_pc, builder, libraryVars>>

\* The consumer drops the Receiver: the queued payloads go with it.
drop_receiver(c) ==
  /\ c \in DOMAIN channels
  /\ channels[c].rx = "alive"
  /\ channels' = [channels EXCEPT ![c].rx = "dropped", ![c].queue = <<>>]
  /\ UNCHANGED <<gateVars, last, tasks, shutdown_pc, builder, libraryVars>>

\* ------------------------------------------------------------------------
\* controller.rs: start_event_receivers and shutdown
\* ------------------------------------------------------------------------
\* start_loop that passes over the device whose subscription fails and goes
\* on with the devices after it.
RECURSIVE start_loop_skips_failed(_, _, _)
start_loop_skips_failed(devs, i, fail) ==
  IF i > Len(devs) THEN [ids |-> <<>>, failed |-> FALSE]
  ELSE IF devs[i].event_handle # 0 THEN start_loop_skips_failed(devs, i + 1, fail)
  ELSE IF ~devs[i].events THEN start_loop_skips_failed(devs, i + 1, fail)
  ELSE IF fail = i
    THEN [ids |-> start_loop_skips_failed(devs, i + 1, fail).ids, failed |-> TRUE]
  ELSE LET rest == start_loop_skips_failed(devs, i + 1, fail)
       IN [ids |-> <<i - 1>> \o rest.ids, failed |-> rest.failed]

\* The loop of start_event_receivers from device index i on: a device with an
\* event handle is skipped, a device without event source is skipped, and
\* run_global_subscriber is run for the others; the `?` leaves the loop at
\* the device whose subscription fails. The JoinHandle that
\* run_global_subscriber returns is not kept. `ids` are the devices a task
\* was spawned for.
RECURSIVE start_loop(_, _, _)
start_loop(devs, i, fail) ==
  IF i > Len(devs) THEN [ids |-> <<>>, failed |-> FALSE]
  ELSE IF devs[i].event_handle # 0 THEN start_loop(devs, i + 1, fail)
  ELSE IF ~devs[i].events THEN start_loop(devs, i + 1, fail)
  ELSE IF fail = i THEN [ids |-> <<>>, failed |-> TRUE]
  ELSE LET rest == start_loop(devs, i + 1, fail)
       IN [ids |-> <<i - 1>> \o rest.ids, failed |-> rest.failed]

\* The end of start_event_receivers that hands out the receiver whatever the
\* number of tasks started.
start_result_unchecked(loop) ==
  IF loop.failed THEN [kind |-> "Events", info |-> "subscribe"] ELSE None

\* The end of start_event_receivers: the subscribe error, the Events error
\* when started_count is zero, the receiver otherwise (None = no error).
start_result(loop) ==
  IF loop.failed THEN [kind |-> "Events", info |-> "subscribe"]
  ELSE IF Len(loop.ids) = 0
    THEN [kind |-> "Events", info |-> "No event receiver tasks has started"]
    ELSE None

\* start_event_receivers whose receiver outlives a failed call.
start_event_receivers_keeps_receiver ==
  /\ Alive
  /\ \E buffer_size \in 1..MaxBuffer, fail \in 0..Len(devices) :
       LET loop == start_loop(devices, 1, fail)
           error == start_result(loop)
           c == Len(channels) + 1
       IN /\ Len(tasks) + Len(loop.ids) <= MaxTasks
          /\ tasks' = tasks \o [k \in 1..Len(loop.ids) |-> NewTask(loop.ids[k], c)]
          /\ channels' =
               IF Len(loop.ids) = 0 THEN channels
               ELSE Append(channels,
                      [cap |-> buffer_size, queue |-> <<>>, rx |-> "alive"])
          /\ last' = [NoObs EXCEPT !.op = "start_event_receivers",
                                   !.error = error,
                                   !.spawned = Len(loop.ids),
                                   !.receiver = IF error = None THEN c ELSE 0]
  /\ UNCHANGED <<gateVars, shutdown_pc, builder, libraryVars>>

\* Controller::start_event_receivers(buffer_size); `fail` is the index of
\* the device whose broker subscription fails, 0 when none does.
start_event_receivers ==
  /\ Alive
  /\ \E buffer_size \in 1..MaxBuffer, fail \in 0..Len(devices) :
       LET loop == start_loop(devices, 1, fail)
           error == start_result(loop)
           c == Len(channels) + 1
       IN /\ Len(tasks) + Len(loop.ids) <= MaxTasks
          /\ tasks' = tasks \o [k \in 1..Len(loop.ids) |-> NewTask(loop.ids[k], c)]
          /\ channels' =
               IF Len(loop.ids) = 0 THEN channels
               ELSE Append(channels,
                      [cap |-> buffer_size, queue |-> <<>>,
                       rx |-> IF error = None THEN "alive" ELSE "never"])
          /\ last' = [NoObs EXCEPT !.op = "start_event_receivers",
                                   !.error = error,
                                   !.spawned = Len(loop.ids),
                                   !.receiver = IF error = None THEN c ELSE 0]
  /\ UNCHANGED <<gateVars, shutdown_pc, builder, libraryVars>>

\* Where shutdown goes after the device at index i.
AfterDevice(i) ==
  IF i < Len(devices) THEN [phase |-> "cancel", i |-> i + 1]
                      ELSE [phase |-> "returned", i |-> 0]

\* Controller::shutdown is called: the Controller is consumed.
shutdown ==
  /\ Alive
  /\ shutdown_pc' = AfterDevice(0)
  /\ last' = [NoObs EXCEPT !.op = "shutdown"]
  /\ UNCHANGED <<gateVars, tasks, channels, builder, libraryVars>>

\* shutdown that returns at the first awaited task that failed.
shutdown_device_propagates ==
  /\ shutdown_pc.phase \in {"cancel", "await"}
  /\ LET i == shutdown_pc.i
         dev == devices[i]
     IN IF shutdown_pc.phase = "cancel"
          THEN /\ tasks' = [t \in DOMAIN tasks |->
                              IF dev.events /\ tasks[t].current /\ tasks[t].id = i - 1
                                THEN [tasks[t] EXCEPT !.cancelled = TRUE,
                                                      !.mid_poll = tasks[t].pc = "Polling"]
                                ELSE tasks[t]]
               /\ shutdown_pc' = IF dev.event_handle # 0
                                   THEN [phase |-> "await", i |-> i]
                                   ELSE AfterDevice(i)
          ELSE /\ tasks[dev.event_handle].pc \in {"Stopped", "Panicked"}
               /\ shutdown_pc' = IF tasks[dev.event_handle].pc = "Panicked"
                                   THEN [phase |-> "returned", i |-> 0]
                                   ELSE AfterDevice(i)
               /\ UNCHANGED tasks
  /\ UNCHANGED <<gateVars, last, channels, builder, libraryVars>>

\* The body of the loop of shutdown for one device: the token of a device
\* with an event source is cancelled, then the event handle, if there is
\* one, is awaited: the await ends when the task has ended, with Ok for a
\* task that returned and with a JoinError, which is logged, for one that
\* panicked.
shutdown_device ==
  /\ shutdown_pc.phase \in {"cancel", "await"}
  /\ LET i == shutdown_pc.i
         dev == devices[i]
     IN IF shutdown_pc.phase = "cancel"
          THEN /\ tasks' = [t \in DOMAIN tasks |->
                              IF dev.events /\ tasks[t].current /\ tasks[t].id = i - 1
                                THEN [tasks[t] EXCEPT !.cancelled = TRUE,
                                                      !.mid_poll = tasks[t].pc = "Polling"]
                                ELSE tasks[t]]
               /\ shutdown_pc' = IF dev.event_handle # 0
                                   THEN [phase |-> "await", i |-> i]
                                   ELSE AfterDevice(i)
          ELSE /\ tasks[dev.event_handle].pc \in {"Stopped", "Panicked"}
               /\ shutdown_pc' = AfterDevice(i)
               /\ UNCHANGED tasks
  /\ UNCHANGED <<gateVars, last, channels, builder, libraryVars>>

\* The event subscriptions of the Controller.
EventsNext ==
  \/ discover
  \/ start_event_receivers
  \/ \E t \in 1..MaxTasks : task_cancelled(t)
  \/ \E t \in 1..MaxTasks : task_poll(t)
  \/ \E t \in 1..MaxTasks : task_send(t)
  \/ \E c \in 1..MaxTasks : recv(c)
  \/ \E c \in 1..MaxTasks : drop_receiver(c)
  \/ shutdown
  \/ shutdown_device

EventsSpec == Init /\ [][EventsNext]_vars

\* The scheduler runs every task that can take a step, and shutdown goes on
\* whenever it can; the broker, the consumer and the caller owe nothing.
EventsFairSpec ==
  /\ EventsSpec
  /\ \A t \in 1..MaxTasks : WF_vars(task_cancelled(t)) /\ WF_vars(task_send(t))
  /\ WF_vars(shutdown_device)

\* ------------------------------------------------------------------------
\* The subscription of one device (fan-out)
\* ------------------------------------------------------------------------
\* The task spawned by run_device_subscriber for device id: it republishes
\* into the broadcast channel c of that device. `discarded` tells that the
\* last turn of its loop discarded the item it polled.
NewDeviceTask(id, c) ==
  [id |-> id, chan |-> c, current |-> TRUE, cancelled |-> FALSE,
   pc |-> "Polling", n |-> 0, blocked |-> FALSE, mid_poll |-> FALSE,
   sink |-> "broadcast", discarded |-> FALSE]

\* Task t runs run_event_subscriber.
IsDeviceTask(t) == t \in DOMAIN tasks /\ "sink" \in DOMAIN tasks[t]

\* The subscription of the device at index i on its own: the task of
\* run_device_subscriber is spawned and its handle is kept in the device,
\* which holds at most one running subscription; a failed broker
\* subscription starts nothing. The caller gets the first listener of the
\* broadcast channel.
device_subscribe ==
  /\ Alive
  /\ Len(tasks) < MaxTasks
  /\ \E i \in DOMAIN devices, failed \in BOOLEAN :
       /\ devices[i].events
       /\ devices[i].event_handle = 0
       /\ IF failed
            THEN /\ UNCHANGED <<devices, tasks, channels>>
                 /\ last' = [NoObs EXCEPT !.op = "device_subscribe", !.id = i - 1,
                                          !.error = [kind |-> "Events", info |-> "subscribe"]]
            ELSE /\ tasks' = Append(tasks, NewDeviceTask(i - 1, Len(channels) + 1))
                 /\ channels' = Append(channels,
                                  [cap |-> 1, queue |-> <<>>, rx |-> "alive"])
                 /\ devices' = [devices EXCEPT ![i].event_handle = Len(tasks) + 1]
                 /\ last' = [NoObs EXCEPT !.op = "device_subscribe", !.id = i - 1,
                                          !.spawned = 1,
                                          !.receiver = Len(channels) + 1]
  /\ UNCHANGED <<privacy_policy, sender, shutdown_pc, builder, libraryVars>>

\* run_event_subscriber, the cancelled() branch of the select.
run_event_subscriber_cancelled(t) ==
  /\ IsDeviceTask(t)
  /\ tasks[t].pc = "Polling"
  /\ tasks[t].cancelled
  /\ tasks' = [tasks EXCEPT ![t].pc = "Stopped"]
  /\ UNCHANGED <<gateVars, last, channels, shutdown_pc, builder, libraryVars>>

\* A loop that logs the failed send and goes on to the sleep.
run_event_subscriber_poll_event_continues(t, event) ==
  /\ IsDeviceTask(t)
  /\ tasks[t].pc = "Polling"
  /\ IF parse_event(event) = None
       THEN tasks' = [tasks EXCEPT ![t].mid_poll = FALSE, ![t].discarded = TRUE]
       ELSE /\ tasks[t].n < MaxEvents
            /\ tasks' = IF channels[tasks[t].chan].rx = "alive"
                          THEN [tasks EXCEPT ![t].n = @ + 1, ![t].pc = "Sleeping",
                                             ![t].mid_poll = FALSE,
                                             ![t].discarded = FALSE]
                          ELSE [tasks EXCEPT ![t].pc = "Sleeping",
                                             ![t].mid_poll = FALSE,
                                             ![t].discarded = FALSE]
  /\ UNCHANGED <<gateVars, last, channels, shutdown_pc, builder, libraryVars>>

\* run_event_subscriber, the eventloop.poll() branch of the select: an item
\* parse_event rejects takes the `continue` to the next turn of the loop, a
\* decoded batch is sent to the broadcast channel; a send without a listener
\* fails and breaks the loop, a send that succeeds is followed by the sleep
\* at the end of the loop body.
run_event_subscriber_poll_event(t, event) ==
  /\ IsDeviceTask(t)
  /\ tasks[t].pc = "Polling"
  /\ IF parse_event(event) = None
       THEN tasks' = [tasks EXCEPT ![t].mid_poll = FALSE, ![t].discarded = TRUE]
       ELSE /\ tasks[t].n < MaxEvents
            /\ tasks' = IF channels[tasks[t].chan].rx = "alive"
                          THEN [tasks EXCEPT ![t].n = @ + 1, ![t].pc = "Sleeping",
                                             ![t].mid_poll = FALSE,
                                             ![t].discarded = FALSE]
                          ELSE [tasks EXCEPT ![t].pc = "Stopped",
                                             ![t].mid_poll = FALSE,
                                             ![t].discarded = FALSE]
  /\ UNCHANGED <<gateVars, last, channels, shutdown_pc, builder, libraryVars>>

\* One turn of the loop with whatever eventloop.poll() returns.
run_event_subscriber_poll(t) ==
  \E event \in BrokerEvents : run_event_subscriber_poll_event(t, event)

\* run_event_subscriber, the end of the 100 ms sleep.
run_event_subscriber_wake(t) ==
  /\ IsDeviceTask(t)
  /\ tasks[t].pc = "Sleeping"
  /\ tasks' = [tasks EXCEPT ![t].pc = "Polling"]
  /\ UNCHANGED <<gateVars, last, channels, shutdown_pc, builder, libraryVars>>

\* The task of a subscription panics: the runtime ends it and its handle
\* will answer the await with a JoinError.
task_panics(t) ==
  /\ IsDeviceTask(t)
  /\ tasks[t].pc \in {"Polling", "Sleeping"}
  /\ tasks' = [tasks EXCEPT ![t].pc = "Panicked"]
  /\ UNCHANGED <<gateVars, last, channels, shutdown_pc, builder, libraryVars>>

\* The subscriptions of single devices and their shutdown.
DeviceEventsNext ==
  \/ discover
  \/ device_subscribe
  \/ \E t \in 1..MaxTasks : run_event_subscriber_cancelled(t)
  \/ \E t \in 1..MaxTasks : run_event_subscriber_poll(t)
  \/ \E t \in 1..MaxTasks : run_event_subscriber_wake(t)
  \/ \E t \in 1..MaxTasks : task_panics(t)
  \/ \E c \in 1..MaxTasks : drop_receiver(c)
  \/ shutdown
  \/ shutdown_device

DeviceEventsSpec == Init /\ [][DeviceEventsNext]_vars

\* ------------------------------------------------------------------------
\* The construction of a Policy
\* ------------------------------------------------------------------------
\* `given` is the global block set the construction started from, `calls`
\* the block_device_on_hazards calls made since, in order.
\* The caller starts a Policy with Policy::new.
policy_new ==
  /\ \E block_on_hazards \in Hazards :
       builder' = [policy |-> new(block_on_hazards),
                   given |-> block_on_hazards, calls |-> <<>>]
  /\ UNCHANGED <<gateVars, last, eventVars, libraryVars>>

\* The caller starts a Policy with Policy::only_local_policy.
policy_only_local ==
  /\ \E id \in PolicyIds, hazards \in Hazards :
       builder' = [policy |-> only_local_policy(id, hazards),
                   given |-> {},
                   calls |-> <<[id |-> id, hazards |-> hazards]>>]
  /\ UNCHANGED <<gateVars, last, eventVars, libraryVars>>

\* The caller chains one more block_device_on_hazards on the Policy.
policy_block_device ==
  /\ builder # None
  /\ Len(builder.calls) < MaxCalls
  /\ \E id \in PolicyIds, hazards \in Hazards :
       builder' = [builder EXCEPT
                     !.policy = block_device_on_hazards(@, id, hazards),
                     !.calls = Append(@, [id |-> id, hazards |-> hazards])]
  /\ UNCHANGED <<gateVars, last, eventVars, libraryVars>>

PolicyNext ==
  \/ policy_new
  \/ policy_only_local
  \/ policy_block_device

PolicySpec == Init /\ [][PolicyNext]_vars

\* ------------------------------------------------------------------------
\* The hazard identifiers
\* ------------------------------------------------------------------------
\* Hazard::id is called on a hazard of ALL_HAZARDS.
hazard_id_call ==
  /\ \E k \in DOMAIN ALL_HAZARDS :
       hazard_obs' = [hazard_obs EXCEPT !.hazard = Some(ALL_HAZARDS[k]),
                                        !.hazard_id = hazard_id(ALL_HAZARDS[k])]
  /\ UNCHANGED <<gateVars, last, eventVars, builder, bh1750, dht22, light>>

\* Hazard::from_id is called on an identifier.
hazard_from_id_call ==
  /\ \E i \in 0..MaxHazardId :
       hazard_obs' = [hazard_obs EXCEPT !.called = TRUE, !.id = i,
                                        !.found = from_id(i)]
  /\ UNCHANGED <<gateVars, last, eventVars, builder, bh1750, dht22, light>>

HazardNext ==
  \/ hazard_id_call
  \/ hazard_from_id_call

HazardSpec == Init /\ [][HazardNext]_vars

\* ------------------------------------------------------------------------
\* The Bh1750 driver
\* ------------------------------------------------------------------------
bh_set_mtreg ==
  /\ \E mtreg \in MtregInputs, fail \in 0..2 :
       bh1750' = set_mtreg(bh1750, mtreg, fail)
  /\ UNCHANGED <<gateVars, last, eventVars, builder, hazard_obs, dht22, light>>

bh_start_continuous_measurement ==
  /\ \E res \in Resolution, ok \in BOOLEAN :
       bh1750' = start_continuous_measurement(bh1750, res, ok)
  /\ UNCHANGED <<gateVars, last, eventVars, builder, hazard_obs, dht22, light>>

bh_read_continuous_measurement ==
  /\ \E ok \in BOOLEAN :
       bh1750' = read_continuous_measurement(bh1750, ok)
  /\ UNCHANGED <<gateVars, last, eventVars, builder, hazard_obs, dht22, light>>

Bh1750Next ==
  \/ bh_set_mtreg
  \/ bh_start_continuous_measurement
  \/ bh_read_continuous_measurement

Bh1750Spec == Init /\ [][Bh1750Next]_vars

\* ------------------------------------------------------------------------
\* The Dht22 driver
\* ------------------------------------------------------------------------
\* Dht22::read up to its first wait: send_start_signal sets the pin low and
\* then high, and either write can fail.
dht_read ==
  /\ dht22.pc \in {"idle", "done"}
  /\ \E set_low_ok \in BOOLEAN, set_high_ok \in BOOLEAN :
       dht22' = IF set_low_ok /\ set_high_ok
                  THEN [pc |-> "waiting", wait |-> 1, polls |-> 0, result |-> ""]
                  ELSE [pc |-> "done", wait |-> 0, polls |-> 0, result |-> "Pin"]
  /\ UNCHANGED <<gateVars, last, eventVars, builder, hazard_obs, bh1750, light>>

\* One poll of the wait in progress: the pin read fails (pin_ok false) or
\* gives `level`. A wait that returns Ok is followed by the next one; after
\* the wait for the high phase of a bit the pin is sampled (sample_ok), and
\* after the last bit the checksum is validated (checksum_ok).
dht_poll_level(level, pin_ok, sample_ok, checksum_ok) ==
  /\ dht22.pc = "waiting"
  /\ LET polled == [dht22 EXCEPT !.polls = @ + 1]
         r == wait_until_state(dht22.polls, WantedAt(dht22.wait), level)
     IN dht22' =
          IF ~pin_ok THEN [polled EXCEPT !.pc = "done", !.result = "Pin"]
          ELSE IF r = "Again" THEN polled
          ELSE IF r = "Timeout"
            THEN [polled EXCEPT !.pc = "done", !.result = "Timeout"]
          ELSE IF dht22.wait > 2 /\ (dht22.wait % 2) = 0 /\ ~sample_ok
            THEN [polled EXCEPT !.pc = "done", !.result = "Pin"]
          ELSE IF dht22.wait = ReadWaits
            THEN [polled EXCEPT !.pc = "done",
                    !.result = IF checksum_ok THEN "Ok" ELSE "ChecksumMismatch"]
          ELSE [polled EXCEPT !.wait = @ + 1, !.polls = 0]
  /\ UNCHANGED <<gateVars, last, eventVars, builder, hazard_obs, bh1750, light>>

dht_poll ==
  \E level \in PinState, pin_ok \in BOOLEAN,
     sample_ok \in BOOLEAN, checksum_ok \in BOOLEAN :
    dht_poll_level(level, pin_ok, sample_ok, checksum_ok)

Dht22Next ==
  \/ dht_read
  \/ dht_poll

\* read is synchronous code: once called it runs on.
Dht22Spec == Init /\ [][Dht22Next]_vars /\ WF_vars(dht_poll)

\* ------------------------------------------------------------------------
\* The construction of a light
\* ------------------------------------------------------------------------
\* The light after the route method of func_type was called with a route
\* and a handler.
route_method(self, func_type, route, func) ==
  CASE func_type = "OkStateless"     -> stateless_ok_route(self, route, func)
    [] func_type = "OkStateful"      -> stateful_ok_route(self, route, func)
    [] func_type = "SerialStateless" -> stateless_serial_route(self, route, func)
    [] func_type = "SerialStateful"  -> stateful_serial_route(self, route, func)
    [] func_type = "InfoStateless"   -> stateless_info_route(self, route, func)
    [] func_type = "InfoStateful"    -> stateful_info_route(self, route, func)

\* The caller adds a route with one of the six route methods; the handler
\* is the closure written for that route and that call.
light_route(func_type, route) ==
  /\ light.calls < MaxRoutes
  /\ light' = [route_method(light, func_type, route,
                            [path |-> route.path, rest_kind |-> route.rest_kind,
                             call |-> light.calls + 1])
                 EXCEPT !.calls = light.calls + 1]
  /\ UNCHANGED <<gateVars, last, eventVars, builder, hazard_obs, bh1750, dht22>>

\* The construction of a light.
LightNext ==
  \E k \in DOMAIN FuncType, route \in LightRoutes : light_route(FuncType[k], route)

LightSpec == Init /\ [][LightNext]_vars

\* ------------------------------------------------------------------------
\* Properties of the request path
\* ------------------------------------------------------------------------
\* The hazards declared by the route the last request call asked for.
LastHazards == RoutesOf(devices[last.id + 1].kind)[last.route].hazards

\* The override of a policy for a device id, empty when there is no entry.
OverrideOf(policy, id) ==
  IF id \in DOMAIN policy.block_device_on_hazards
    THEN policy.block_device_on_hazards[id] ELSE {}

\* The last operation built a RequestSender.
BuiltSender == last.op = "request" /\ last.error = None

\* C1: for a route with a non-empty declared hazard set H on device d, the
\* RequestSender built by DeviceSender::request has skip = true exactly when
\* (H \cap global block set) \cup (H \cap block set of d) is not empty.
C1_SkipIffBlocked ==
  (BuiltSender /\ LastHazards # {}) =>
    (last.skip <=>
       ((LastHazards \cap privacy_policy.block_on_hazards)
          \cup (LastHazards \cap OverrideOf(privacy_policy, last.id))) # {})

\* A sender for a route with two declared hazards that is skipped by the
\* local rule alone.
C1_Witness ==
  /\ BuiltSender /\ LastHazards # {} /\ last.skip
  /\ LastHazards \cap privacy_policy.block_on_hazards = {}
  /\ Cardinality(LastHazards) = 2

\* C2: a sender with skip = true returns Skipped from send() and makes no
\* transport call; Skipped is neither a success body nor a transport error;
\* a sender with skip = false never returns Skipped.
C2_SkippedNoTransport ==
  /\ "Skipped" \notin SuccessBodies \cup TransportErrors
  /\ last.op = "send" =>
       /\ last.skip => (last.result = "Skipped" /\ last.transport = <<>>)
       /\ ~last.skip => last.result # "Skipped"

\* A skipped send.
C2_Witness == last.op = "send" /\ last.skip /\ last.result = "Skipped"

\* The decision the present policy would give the sender in the caller's hands.
PresentDecision ==
  sender.request.hazards # {}
    /\ evaluate_privacy_policy(privacy_policy, sender.id, sender.request.hazards)

\* C3: the skip decision of a RequestSender is fixed at construction: a
\* change of the policy leaves the sender as it is, and every later send() or
\* send_with_parameters() returns Skipped exactly when the cached decision is
\* true, without evaluating the policy.
C3_SkipFixedAtConstruction ==
  [][/\ (privacy_policy' # privacy_policy /\ sender # None) => sender' = sender
     /\ (last'.op \in {"send", "send_with_parameters"}) =>
          /\ sender' = sender
          /\ (last'.result = "Skipped") <=> sender.skip
          /\ ~last'.evaluated]_vars

\* A send on a sender whose cached decision differs from what the present
\* policy would decide: the policy changed after the construction.
C3_Witness ==
  /\ last.op = "send"
  /\ sender # None
  /\ sender.skip # PresentDecision
  /\ (last.result = "Skipped") <=> sender.skip

\* C4: a route that declares no hazard is never skipped, whatever the
\* policy and the device id, and the policy is not evaluated for it.
C4_NoHazardNeverSkipped ==
  (BuiltSender /\ LastHazards = {}) => (~last.skip /\ ~last.evaluated)

\* A sender built for a route without hazards under a policy that blocks
\* every hazard globally and for the device.
C4_Witness ==
  /\ BuiltSender /\ LastHazards = {} /\ ~last.skip
  /\ privacy_policy.block_on_hazards = Hazard
  /\ OverrideOf(privacy_policy, last.id) # {}

\* C10: on an empty registry Controller::device(id) fails with the
\* empty-registry error for every id, never with the not-found error.
C10_EmptyRegistryError ==
  (last.op = "device" /\ Len(devices) = 0) =>
    last.error = sender_error("No devices found.")

\* A device call with a non-zero id on an empty registry.
C10_Witness ==
  last.op = "device" /\ Len(devices) = 0 /\ last.id > 0 /\ last.error # None

\* C11: on a registry of n > 0 devices Controller::device(id) succeeds
\* exactly when id < n and then binds the device at index id; for id >= n it
\* fails with the device-not-found Sender error; the registry and the policy
\* are left as they were.
C11_DeviceLookup ==
  [][(device_call /\ Len(devices) > 0) =>
       /\ (last'.error = None) <=> (last'.id < Len(devices))
       /\ last'.id < Len(devices) => last'.bound = last'.id
       /\ last'.id >= Len(devices) =>
            last'.error = sender_error("Error in retrieving the device with identifier.")
       /\ devices' = devices
       /\ privacy_policy' = privacy_policy]_vars

\* A device call with the first identifier past the end of a registry of two.
C11_Witness ==
  /\ last.op = "device"
  /\ Len(devices) = 2
  /\ last.id = 2
  /\ last.error = sender_error("Error in retrieving the device with identifier.")

\* The route of the last request call is on the device it was asked of.
LastRouteKnown == last.route \in DOMAIN RoutesOf(devices[last.id + 1].kind)

\* C12: DeviceSender::request on a route the device has no descriptor for
\* fails with the route-not-found Sender error; no RequestSender is produced,
\* the policy is not evaluated and no transport call is made.
C12_UnknownRoute ==
  [][(request_call /\ ~LastRouteKnown') =>
       /\ last'.error = sender_error("Error in retrieving the request with route.")
       /\ sender' = sender
       /\ ~last'.evaluated
       /\ last'.transport = <<>>]_vars

\* A failed request for /wrong that left an earlier sender as it was.
C12_Witness ==
  /\ last.op = "request"
  /\ last.route = "/wrong"
  /\ last.error = sender_error("Error in retrieving the request with route.")
  /\ sender # None

\* The policy of the scenario: LogEnergyConsumption blocked for every device,
\* FireHazard blocked for device 0.
ScenarioPolicy ==
  [block_on_hazards |-> {"LogEnergyConsumption"},
   block_device_on_hazards |-> (0 :> {"FireHazard"})]

\* The caller has just built a sender for a route of the light at index 0
\* under the policy of the scenario.
ScenarioSender ==
  /\ BuiltSender
  /\ privacy_policy = ScenarioPolicy
  /\ last.id = 0
  /\ devices[1].kind = "light"

\* C13: under the global block set {LogEnergyConsumption} and the override
\* {FireHazard} for device 0, send() on device 0 returns Skipped on /off and
\* on /toggle without a transport call, and on /on, which declares no hazard,
\* makes the real call and returns its answer, a success body whenever the
\* transport did not fail.
C13_Scenario ==
  [][(ScenarioSender /\ send_call) =>
       /\ last.route \in {"/off", "/toggle"} =>
            last'.result = "Skipped" /\ last'.transport = <<>>
       /\ last.route = "/on" =>
            /\ last'.transport = <<"plain_send">>
            /\ last'.result # "Skipped"
            /\ last'.result \notin TransportErrors => last'.result \in SuccessBodies]_vars

\* A send on /toggle of device 0 answered Skipped under the scenario's policy
\* by a sender whose cached decision is the one of that policy.
C13_Witness ==
  /\ privacy_policy = ScenarioPolicy
  /\ last.op = "send"
  /\ last.id = 0
  /\ last.route = "/toggle"
  /\ Len(devices) > 0
  /\ devices[1].kind = "light"
  /\ sender.skip = PresentDecision
  /\ last.result = "Skipped"

\* C14: send_with_parameters returns Skipped without a transport call when
\* the cached decision is true, whether or not the route declares parameters;
\* otherwise it makes the parameterless call when the route declares no
\* parameters and the call carrying the values when it declares some.
C14_SendWithParameters ==
  last.op = "send_with_parameters" =>
    /\ sender.skip => last.result = "Skipped" /\ last.transport = <<>>
    /\ (~sender.skip /\ ~sender.request.parameters) =>
         last.transport = <<"plain_send">> /\ last.result # "Skipped"
    /\ (~sender.skip /\ sender.request.parameters) =>
         last.transport = <<"create_response">> /\ last.result # "Skipped"

\* send_with_parameters skipped on a route that declares parameters.
C14_Witness ==
  /\ last.op = "send_with_parameters"
  /\ sender.skip
  /\ sender.request.parameters
  /\ last.result = "Skipped"
  /\ last.transport = <<>>

\* C18: send() and send_with_parameters() on a sender that is not skipped
\* make exactly one transport call and return what it returned: an error of
\* the transport comes back as it is, is not retried and is not turned into
\* Skipped.
C18_OneCallErrorUnchanged ==
  /\ (last.op \in {"send", "send_with_parameters"} /\ ~last.skip) =>
       /\ Len(last.transport) = 1
       /\ last.result \in TransportOutcomes
  /\ (sender # None /\ ~sender.skip) =>
       \A outcome \in TransportOutcomes :
         /\ send(sender, outcome).result = outcome
         /\ Len(send(sender, outcome).transport) = 1
         /\ send_with_parameters(sender, outcome).result = outcome
         /\ Len(send_with_parameters(sender, outcome).transport) = 1

\* A send whose single transport call failed and whose error came back.
C18_Witness ==
  /\ last.op = "send"
  /\ ~last.skip
  /\ last.result \in TransportErrors
  /\ Len(last.transport) = 1

\* C20: Controller::new gives an empty registry and the policy of
\* Policy::init, and while that policy is the installed one no RequestSender
\* is built with skip = true, whatever the device and the declared hazards.
C20_DefaultPermissive ==
  /\ last.op = "new" => (devices = <<>> /\ privacy_policy = init)
  /\ (privacy_policy = init /\ BuiltSender) => ~last.skip

\* A sender built under the default policy for a route with two hazards.
C20_Witness ==
  /\ privacy_policy = init
  /\ BuiltSender
  /\ Cardinality(LastHazards) = 2
  /\ ~last.skip

\* ------------------------------------------------------------------------
\* Properties of the event subscriptions
\* ------------------------------------------------------------------------
\* The tasks bound to the present registry that have not stopped, per device.
RunningTasks(id) ==
  {t \in DOMAIN tasks : tasks[t].current /\ tasks[t].id = id /\ tasks[t].pc # "Stopped"}

\* C5: when shutdown returns, every subscriber task that
\* start_event_receivers started on the present registry is Stopped.
C5_ShutdownAwaitsAllTasks ==
  shutdown_pc.phase = "returned" =>
    \A t \in DOMAIN tasks : tasks[t].current => tasks[t].pc = "Stopped"

\* C6: after any sequence of start_event_receivers calls every device has at
\* most one running subscriber task.
C6_OneTaskPerDevice ==
  \A id \in 0..(MaxDevices - 1) : Cardinality(RunningTasks(id)) <= 1

\* No device of the registry has an event source.
NoEventSource == \A i \in DOMAIN devices : ~devices[i].events

\* C7: start_event_receivers on a registry without any event source (an
\* empty registry included) fails with the Events error, spawns no task and
\* hands out no receiver.
C7_NoEventSourceFails ==
  [][(start_event_receivers /\ NoEventSource) =>
       /\ tasks' = tasks
       /\ channels' = channels
       /\ last'.error = [kind |-> "Events", info |-> "No event receiver tasks has started"]
       /\ last'.spawned = 0
       /\ last'.receiver = 0]_vars

\* start_event_receivers has failed on a registry of devices none of which
\* has an event source.
C7_Witness ==
  /\ last.op = "start_event_receivers"
  /\ Len(devices) > 0
  /\ NoEventSource
  /\ last.error # None

\* The payloads of one task lie in the queue in the order of their batches,
\* and all of them are older than the payload the task is pushing.
InOrder ==
  \A c \in DOMAIN channels :
    LET q == channels[c].queue IN
    /\ \A j, k \in DOMAIN q :
         (j < k /\ q[j].events[1] = q[k].events[1]) => q[j].events[2] < q[k].events[2]
    /\ \A t \in DOMAIN tasks, j \in DOMAIN q :
         (tasks[t].chan = c /\ tasks[t].pc = "Sending" /\ q[j].events[1] = t)
           => q[j].events[2] < tasks[t].n

\* No queue holds more payloads than its buffer size.
WithinCapacity ==
  \A c \in DOMAIN channels : Len(channels[c].queue) <= channels[c].cap

\* The push of task t is still pending after the step.
StillPending(t) ==
  /\ tasks'[t].pc = "Sending"
  /\ tasks'[t].n = tasks[t].n

\* The payload of task t went to the end of its queue in the step.
Enqueued(t) ==
  LET c == tasks[t].chan IN
  /\ Len(channels[c].queue) < channels[c].cap
  /\ channels'[c].queue = Append(channels[c].queue, EventPayload(t))
  /\ tasks'[t].pc = "Polling"

\* The push of task t failed in the step because the receiver is gone.
PushFailed(t) ==
  /\ channels[tasks[t].chan].rx # "alive"
  /\ tasks'[t].pc = "Stopped"

\* C8 as stated: the shared queue never exceeds bufferSize, and a payload
\* whose push found the queue full stays pending until it is enqueued: it is
\* never dropped and never overtaken by a later event of the same device.
C8_NeverDropped ==
  [][/\ WithinCapacity'
     /\ InOrder'
     /\ \A t \in DOMAIN tasks :
          (tasks[t].pc = "Sending" /\ tasks[t].blocked) =>
            (StillPending(t) \/ Enqueued(t))]_vars

\* C8 amended: the shared queue never exceeds bufferSize, and a payload whose
\* push is pending stays pending until it is enqueued, in order, unless the
\* consumer end is gone: then the push fails, the payload is discarded and
\* the task stops.
C8_Backpressure ==
  [][/\ WithinCapacity'
     /\ InOrder'
     /\ \A t \in DOMAIN tasks :
          tasks[t].pc = "Sending" =>
            (StillPending(t) \/ Enqueued(t) \/ PushFailed(t))]_vars

\* A task blocked on the push of its second batch while the full queue of a
\* living receiver still holds its first one.
C8_Witness ==
  \E t \in DOMAIN tasks :
    LET c == tasks[t].chan IN
    /\ tasks[t].pc = "Sending"
    /\ tasks[t].blocked
    /\ tasks[t].n = 2
    /\ channels[c].rx = "alive"
    /\ Len(channels[c].queue) = channels[c].cap
    /\ \E j \in DOMAIN channels[c].queue : channels[c].queue[j].events = <<t, 1>>

\* C9: once the Receiver returned by start_event_receivers is dropped, every
\* task started by that call eventually reaches Stopped.
C9_ReceiverDropStopsTasks ==
  \A t \in 1..MaxTasks :
    (t \in DOMAIN tasks /\ channels[tasks[t].chan].rx = "dropped")
      ~> (t \in DOMAIN tasks /\ tasks[t].pc = "Stopped")


\* An item of the broker the subscriber cannot use: a poll error, an
\* outgoing packet, an incoming packet that is no publish, or a publish
\* whose payload does not decode.
Fault(event) ==
  \/ event.result = "Err"
  \/ event.direction = "Outgoing"
  \/ event.packet # "Publish"
  \/ event.payload = "garbage"

\* C16: a runtime fault never takes a subscriber task out of Polling: after
\* a poll error, a packet that is no incoming publish or a publish that does
\* not decode, the task is polling again, nothing was pushed to the queue and
\* nothing reached the caller.
C16_FaultKeepsPolling ==
  [][\A t \in 1..MaxTasks, event \in BrokerEvents :
       (Fault(event) /\ task_poll_event(t, event)) =>
          /\ tasks'[t].pc = "Polling"
          /\ tasks'[t].n = tasks[t].n
          /\ channels' = channels
          /\ last' = last]_vars

\* A task that pushed a batch and is polling again, on which every faulty
\* item is a turn of the loop that leaves no trace.
C16_Witness ==
  \E t \in DOMAIN tasks :
    /\ tasks[t].pc = "Polling"
    /\ ~tasks[t].cancelled
    /\ tasks[t].n = 1
    /\ channels[tasks[t].chan].rx = "alive"
    /\ channels[tasks[t].chan].queue = <<[device_id |-> tasks[t].id, events |-> <<t, 1>>]>>

\* The device at index i is one start_event_receivers subscribes for.
Eligible(i) == devices[i].events /\ devices[i].event_handle = 0

\* C17: when the broker subscription of a device fails during
\* start_event_receivers the call returns that error at once: tasks were
\* started for exactly the eligible devices before that device, none for a
\* later one, the tasks running before the call and the ones just started
\* are left running, and no receiver is returned.
C17_SubscribeFailure ==
  [][(start_event_receivers
        /\ last'.error = [kind |-> "Events", info |-> "subscribe"]) =>
       \E f \in DOMAIN devices :
         /\ Eligible(f)
         /\ Len(tasks') = Len(tasks) + Cardinality({i \in 1..(f - 1) : Eligible(i)})
         /\ SubSeq(tasks', 1, Len(tasks)) = tasks
         /\ \A k \in (Len(tasks) + 1)..Len(tasks') :
              /\ tasks'[k].id + 1 < f
              /\ Eligible(tasks'[k].id + 1)
              /\ tasks'[k].pc = "Polling"
              /\ ~tasks'[k].cancelled
         /\ last'.receiver = 0]_vars

\* A call that failed at the second device after starting a task for the
\* first: the task runs on with a queue nobody holds the receiver of.
C17_Witness ==
  /\ last.op = "start_event_receivers"
  /\ last.error = [kind |-> "Events", info |-> "subscribe"]
  /\ last.spawned = 1
  /\ \E t \in DOMAIN tasks :
       /\ tasks[t].pc = "Polling"
       /\ ~tasks[t].cancelled
       /\ tasks[t].current
       /\ channels[tasks[t].chan].rx = "never"


\* Every device that holds an event handle has had its token cancelled and
\* its task has ended.
AllHandlesAwaited ==
  \A i \in DOMAIN devices :
    devices[i].event_handle # 0 =>
      /\ tasks[devices[i].event_handle].cancelled
      /\ tasks[devices[i].event_handle].pc \in {"Stopped", "Panicked"}

\* The await of shutdown is answered by a task that panicked.
AwaitFails ==
  /\ shutdown_pc.phase = "await"
  /\ tasks[devices[shutdown_pc.i].event_handle].pc = "Panicked"

\* C15: a task that failed does not stop shutdown: when the await of a
\* device's handle yields the failure, shutdown goes on with the next device
\* of the registry, and when it returns every device that holds a handle had
\* its token cancelled and its task awaited to the end.
C15_ShutdownSurvivesFailure ==
  [][/\ (AwaitFails /\ shutdown_device) => shutdown_pc' = AfterDevice(shutdown_pc.i)
     /\ shutdown_pc'.phase = "returned" => AllHandlesAwaited']_vars

\* shutdown returned after the task of the first device had panicked and
\* the task of the second one was cancelled and stopped.
C15_Witness ==
  /\ shutdown_pc.phase = "returned"
  /\ Len(devices) = 2
  /\ devices[1].event_handle # 0
  /\ devices[2].event_handle # 0
  /\ tasks[devices[1].event_handle].pc = "Panicked"
  /\ tasks[devices[2].event_handle].pc = "Stopped"
  /\ tasks[devices[2].event_handle].cancelled


\* ------------------------------------------------------------------------
\* Properties of the construction of a Policy
\* ------------------------------------------------------------------------
\* The calls made for an id, as positions in the order of the calls.
CallsFor(id) == {k \in DOMAIN builder.calls : builder.calls[k].id = id}

\* The position of the last call made for an id.
LastCallFor(id) == CHOOSE k \in CallsFor(id) : \A j \in CallsFor(id) : j <= k

\* C19: after any sequence of block_device_on_hazards calls the override
\* stored for an id is the hazard set of the last call made for that id, an
\* id no call was made for has no override, and the global block set is the
\* one Policy::new was given.
C19_LastCallWins ==
  builder # None =>
    /\ builder.policy.block_on_hazards = builder.given
    /\ \A id \in PolicyIds :
         IF CallsFor(id) = {}
           THEN id \notin DOMAIN builder.policy.block_device_on_hazards
           ELSE /\ id \in DOMAIN builder.policy.block_device_on_hazards
                /\ builder.policy.block_device_on_hazards[id]
                     = builder.calls[LastCallFor(id)].hazards
    /\ DOMAIN builder.policy.block_device_on_hazards \subseteq PolicyIds

\* Three calls on a Policy with a global block set: the third is for the id
\* of the first with other hazards, the second is for another id.
C19_Witness ==
  /\ builder # None
  /\ builder.given # {}
  /\ Len(builder.calls) = 3
  /\ builder.calls[3].id = builder.calls[1].id
  /\ builder.calls[3].hazards # builder.calls[1].hazards
  /\ builder.calls[2].id # builder.calls[1].id
  /\ builder.calls[2].hazards # builder.calls[3].hazards


\* ------------------------------------------------------------------------
\* Properties of the hazard identifiers and of the drivers
\* ------------------------------------------------------------------------
\* C21: Hazard::from_id(h.id()) is Some(h) for every hazard of ALL_HAZARDS,
\* two hazards never share an identifier, and from_id gives None for every
\* identifier that is not the one of a hazard, as every one above 23 is.
C21_HazardIdRoundTrip ==
  /\ hazard_obs.hazard # None => from_id(hazard_obs.hazard_id) = hazard_obs.hazard
  /\ \A j, k \in DOMAIN ALL_HAZARDS :
       hazard_id(ALL_HAZARDS[j]) = hazard_id(ALL_HAZARDS[k]) => j = k
  /\ hazard_obs.called =>
       /\ (hazard_obs.found # None) <=>
            (\E k \in DOMAIN ALL_HAZARDS : hazard_id(ALL_HAZARDS[k]) = hazard_obs.id)
       /\ hazard_obs.found # None => hazard_id(hazard_obs.found.some) = hazard_obs.id
       /\ hazard_obs.id > 23 => hazard_obs.found = None

\* The identifier of the last hazard was taken and the first identifier
\* past it was looked up.
C21_Witness ==
  /\ hazard_obs.hazard = Some("WaterFlooding")
  /\ hazard_obs.hazard_id = 23
  /\ hazard_obs.called
  /\ hazard_obs.id = 24
  /\ hazard_obs.found = None

\* C22: read_continuous_measurement on a driver that has no continuous
\* resolution returns ContinuousMeasurementNotStarted without a bus
\* transaction and without a delay, and the continuous resolution changes
\* only in a start_continuous_measurement whose instruction was written.
C22_ReadBeforeStart ==
  [][/\ (bh1750'.op = "read_continuous_measurement"
           /\ bh1750.continuous_resolution = "None") =>
          /\ bh1750'.result = "ContinuousMeasurementNotStarted"
          /\ bh1750'.i2c = <<>>
          /\ bh1750'.delay = <<>>
     /\ bh1750'.continuous_resolution # bh1750.continuous_resolution =>
          /\ bh1750'.op = "start_continuous_measurement"
          /\ bh1750'.result = "Ok"
          /\ Len(bh1750'.i2c) = 1
          /\ bh1750'.i2c[1].ok]_vars

\* A read refused on a driver whose MTreg was set but whose continuous
\* measurement was never started.
C22_Witness ==
  /\ bh1750.op = "read_continuous_measurement"
  /\ bh1750.continuous_resolution = "None"
  /\ bh1750.mtreg # DEFAULT_MTREG
  /\ bh1750.result = "ContinuousMeasurementNotStarted"
  /\ bh1750.i2c = <<>>
  /\ bh1750.delay = <<>>

\* The MTreg value set_mtreg works with for the argument v.
Clamped(v) == IF v < 31 THEN 31 ELSE IF v > 254 THEN 254 ELSE v

\* C23: set_mtreg(v) clamps v into [31, 254], writes 0x40 | (mt >> 5) and
\* then 0x60 | (mt & 0x1F), and stores mt only when both writes succeeded;
\* after a failed write the stored MTreg is the one from before the call.
C23_SetMtreg ==
  [][(bh1750'.op = "set_mtreg" /\ bh1750' # bh1750) =>
       LET mt == Clamped(bh1750'.arg)
           log == bh1750'.i2c
       IN /\ \A v \in 0..255 : clamp(v, MTREG_MIN, MTREG_MAX) = Clamped(v)
          /\ Len(log) \in {1, 2}
          /\ log[1] = [kind |-> "write", byte |-> 64 + (mt \div 32),
                       ok |-> Len(log) = 2 \/ bh1750'.result = "Ok"]
          /\ Len(log) = 2 => log[2].kind = "write" /\ log[2].byte = 96 + (mt % 32)
          /\ (bh1750'.result = "Ok") <=> (Len(log) = 2 /\ log[2].ok)
          /\ bh1750'.result = "Ok" => bh1750'.mtreg = mt
          /\ bh1750'.result # "Ok" => bh1750'.mtreg = bh1750.mtreg]_vars

\* set_mtreg(255) whose second write failed: the stored MTreg is not 254.
C23_Witness ==
  /\ bh1750.op = "set_mtreg"
  /\ bh1750.arg = 255
  /\ bh1750.result = "I2c"
  /\ Len(bh1750.i2c) = 2
  /\ bh1750.i2c[1].byte = 71
  /\ bh1750.i2c[2].byte = 126
  /\ bh1750.mtreg # 254

\* C24: wait_until_state returns Ok at the first poll that finds the pin in
\* the wanted state and Timeout after exactly MAX_ATTEMPTS polls that did
\* not; no wait polls more than MAX_ATTEMPTS times, and a read that started
\* comes to its end.
C24_WaitBounded ==
  /\ [](/\ dht22.polls <= MAX_ATTEMPTS
        /\ dht22.result = "Timeout" => dht22.polls = MAX_ATTEMPTS)
  /\ [][\A sample_ok, checksum_ok \in BOOLEAN :
          dht_poll_level(WantedAt(dht22.wait), TRUE, sample_ok, checksum_ok) =>
            /\ dht22'.result # "Timeout"
            /\ dht22'.pc = "done" \/ (dht22'.wait = dht22.wait + 1 /\ dht22'.polls = 0)]_vars
  /\ (dht22.pc = "waiting") ~> (dht22.pc = "done")

\* A wait inside read_byte that gave up after its hundredth poll.
C24_Witness ==
  /\ dht22.pc = "done"
  /\ dht22.result = "Timeout"
  /\ dht22.wait > 2
  /\ dht22.polls = MAX_ATTEMPTS


\* ------------------------------------------------------------------------
\* Properties of the subscriber tasks
\* ------------------------------------------------------------------------
\* The receiver of the queue task t pushes to was dropped by the consumer.
ReceiverDropped(t) == channels[tasks[t].chan].rx = "dropped"

C26_FailedPushContinues ==
  [][\A t \in 1..MaxTasks :
       run_event_subscriber_poll(t) => tasks'[t].pc # "Stopped"]_vars

\* C26: in fan-out mode a decoded batch whose push finds no listener breaks
\* the loop: the task goes from Polling to Stopped, without the sleep and
\* without the batch counting as delivered.
C26_FailedPushStops ==
  [][\A t \in 1..MaxTasks, event \in BrokerEvents :
       (/\ run_event_subscriber_poll_event(t, event)
        /\ parse_event(event) # None
        /\ ReceiverDropped(t)) =>
          /\ tasks'[t].pc = "Stopped"
          /\ tasks'[t].n = tasks[t].n]_vars

\* A fan-out task nobody cancelled that stopped on a channel without
\* listener.
C26_Witness ==
  \E t \in DOMAIN tasks :
    /\ IsDeviceTask(t)
    /\ tasks[t].pc = "Stopped"
    /\ ~tasks[t].cancelled
    /\ ReceiverDropped(t)

\* C27: in fan-out mode every turn of the poll branch that does not stop the
\* task, whether its item was delivered or discarded, is followed by the
\* sleep before the next poll.
C27_DelayAfterEveryCycle ==
  [][\A t \in 1..MaxTasks :
       run_event_subscriber_poll(t) => tasks'[t].pc \in {"Sleeping", "Stopped"}]_vars

\* C28 as stated: cancellation is looked at only at the top of a turn, so a
\* task whose poll was pending when its token was cancelled stops only
\* after that poll returned.
C28_StopsOnlyAfterPollReturns ==
  [][\A t \in DOMAIN tasks :
       (tasks[t].pc = "Polling" /\ tasks'[t].pc = "Stopped") =>
         ~tasks[t].mid_poll]_vars

\* C28: cancellation is raced against the poll: a task that is polling when
\* its token is cancelled can stop at once, whether or not the pending poll
\* has returned.
C28_CancellationRacesPoll ==
  \A t \in DOMAIN tasks :
    (tasks[t].pc = "Polling" /\ tasks[t].cancelled) => ENABLED task_cancelled(t)

\* A task that stopped while the poll it was cancelled in was still pending.
C28_Witness ==
  \E t \in DOMAIN tasks :
    /\ tasks[t].pc = "Stopped"
    /\ tasks[t].cancelled
    /\ tasks[t].mid_poll

\* C29: a cancelled task is never suspended at a point where its
\* cancellation goes unobserved: it is not found waiting for room in the
\* shared queue.
C29_CancelObservedWhereSuspended ==
  \A t \in DOMAIN tasks :
    tasks[t].cancelled => ~(tasks[t].pc = "Sending" /\ QueueFull(tasks[t].chan))

\* C30: every payload in a fan-in queue carries the registry index its task
\* was spawned for and one of the batches that task decoded, and the queue
\* grows only by the payload of the batch a task is pushing.
C30_PayloadTagged ==
  /\ [](\A c \in DOMAIN channels : \A k \in DOMAIN channels[c].queue :
          LET p == channels[c].queue[k]
              t == p.events[1]
          IN /\ t \in DOMAIN tasks
             /\ tasks[t].chan = c
             /\ p.device_id = tasks[t].id
             /\ p.events[2] \in 1..tasks[t].n
             /\ tasks[t].current =>
                  /\ p.device_id + 1 \in DOMAIN devices
                  /\ devices[p.device_id + 1].events)
  /\ [][\A c \in DOMAIN channels :
          Len(channels'[c].queue) > Len(channels[c].queue) =>
            \E t \in DOMAIN tasks :
              /\ tasks[t].pc = "Sending"
              /\ tasks[t].chan = c
              /\ tasks[t].n >= 1
              /\ channels'[c].queue =
                   Append(channels[c].queue,
                          [device_id |-> tasks[t].id, events |-> <<t, tasks[t].n>>])]_vars

\* A payload in the queue from the device at index 1, whose task was the
\* first one spawned.
C30_Witness ==
  \E c \in DOMAIN channels :
    /\ channels[c].queue # <<>>
    /\ channels[c].queue[1].device_id = 1
    /\ channels[c].queue[1].events[1] = 1

\* The receiver of the queue task t pushes to is in the consumer's hands
\* before and after the step.
ReceiverKept(t) ==
  /\ channels[tasks[t].chan].rx = "alive"
  /\ channels'[tasks[t].chan].rx = "alive"

\* C31: the payloads of one device stand in the shared queue in the order
\* in which the broker delivered their batches: a task numbers its decoded
\* batches as they come, pushes each one at the tail of the queue before it
\* polls again, and while the receiver is kept and the task is not
\* cancelled none is left out or pushed twice.
C31_PerDeviceOrder ==
  /\ [](\A c \in DOMAIN channels : \A j, k \in DOMAIN channels[c].queue :
          (j < k /\ channels[c].queue[j].events[1] = channels[c].queue[k].events[1]) =>
            channels[c].queue[j].events[2] < channels[c].queue[k].events[2])
  /\ [][\A t \in DOMAIN tasks :
          (ReceiverKept(t) /\ ~tasks[t].cancelled) =>
            /\ tasks'[t].n # tasks[t].n =>
                 /\ tasks[t].pc = "Polling" /\ tasks'[t].pc = "Sending"
                 /\ tasks'[t].n = tasks[t].n + 1
            /\ (tasks[t].pc = "Sending" /\ tasks'[t].pc # "Sending") =>
                 /\ tasks'[t].pc = "Polling"
                 /\ channels'[tasks[t].chan].queue =
                      Append(channels[tasks[t].chan].queue,
                             [device_id |-> tasks[t].id, events |-> <<t, tasks[t].n>>])
            /\ (tasks[t].pc = "Polling" /\ tasks'[t].pc # "Polling") =>
                 tasks'[t].pc = "Sending"]_vars

\* Two batches of one device in the queue, the first delivered in front.
C31_Witness ==
  \E c \in DOMAIN channels :
    /\ Len(channels[c].queue) = 2
    /\ channels[c].queue[1].events[1] = channels[c].queue[2].events[1]
    /\ channels[c].queue[1].events[2] = 1
    /\ channels[c].queue[2].events[2] = 2

\* Task u has come to its end.
Completed(u) == tasks[u].pc \in {"Stopped", "Panicked"}

\* C32: shutdown goes through the registry one device at a time: when it
\* cancels the token of a device, the task of every earlier device of the
\* registry that has a subscription has been awaited to its end.
C32_ShutdownSequential ==
  [][\A t \in DOMAIN tasks :
       (~tasks[t].cancelled /\ tasks'[t].cancelled) =>
         \A u \in DOMAIN tasks :
           (tasks[u].current /\ tasks[u].id < tasks[t].id) => Completed(u)]_vars

\* The step is a discover that succeeded.
DiscoverSucceeds == discover /\ last'.error = None

\* C33: a successful discover puts the discovery result in the place of the
\* whole registry (fresh devices, addressed by their index), leaves the
\* policy as it is, and neither cancels nor awaits a subscriber task: the
\* tasks of the replaced registry go on as they were, bound to no device.
C33_DiscoverReplacesRegistry ==
  /\ [][DiscoverSucceeds =>
          /\ devices' \in Registries
          /\ \A id \in 0..MaxDevices :
               (device(devices', id).error = None) <=> (id < Len(devices'))
          /\ privacy_policy' = privacy_policy
          /\ channels' = channels
          /\ shutdown_pc' = shutdown_pc
          /\ DOMAIN tasks' = DOMAIN tasks
          /\ \A t \in DOMAIN tasks :
               tasks'[t] = [tasks[t] EXCEPT !.current = FALSE]]_vars
  /\ [](\A t \in DOMAIN tasks :
          (~tasks[t].current /\ tasks[t].pc = "Polling" /\ tasks[t].n < MaxEvents) =>
            ENABLED task_poll(t))

\* After a successful discover a task of the replaced registry, which
\* nobody cancelled, has pushed a batch decoded since.
C33_Witness ==
  /\ last.op = "discover"
  /\ last.error = None
  /\ \E t \in DOMAIN tasks :
       /\ ~tasks[t].current
       /\ ~tasks[t].cancelled
       /\ tasks[t].pc = "Polling"
       /\ tasks[t].n = MaxEvents
       /\ Len(channels[tasks[t].chan].queue) = MaxEvents

\* ------------------------------------------------------------------------
\* Properties of the replacement of the policy and of the registry
\* ------------------------------------------------------------------------
\* C34: the policy and the registry are whole values at every moment, a
\* change_policy(P) leaves exactly P in the place of the policy, so that any
\* request built afterwards gets the decision P alone gives, and a request
\* is decided on the policy and the registry as they stand.
C34_WholesaleReplacement ==
  /\ [](/\ privacy_policy \in Policies
        /\ devices \in Registries
        /\ last.op = "change_policy" =>
             /\ privacy_policy = last.policy
             /\ \A id \in 0..(Len(devices) - 1), route \in RouteNames :
                  request(privacy_policy, devices[id + 1], id, route) =
                    request(last.policy, devices[id + 1], id, route)
        /\ (last.op = "request" /\ last.error = None) =>
             last.skip =
               request(privacy_policy, devices[last.id + 1], last.id, last.route).skip)
  /\ [][last'.op \in {"change_policy", "request"} =>
          /\ devices' = devices
          /\ last'.op = "request" => privacy_policy' = privacy_policy]_vars

\* A request skipped by the override alone of a policy that a change_policy
\* put in place, the global block set of which is empty.
C34_Witness ==
  /\ last.op = "request"
  /\ last.error = None
  /\ last.skip
  /\ privacy_policy # init
  /\ privacy_policy.block_on_hazards = {}
  /\ last.id \in DOMAIN privacy_policy.block_device_on_hazards

\* ------------------------------------------------------------------------
\* Properties of start_event_receivers and of discover
\* ------------------------------------------------------------------------
\* The device at index i has an event source and no running subscription.
HasNoSubscription(i) == devices[i].events /\ RunningTasks(i - 1) = {}

\* The ids of the eligible devices from index i on, in registry order.
RECURSIVE EligibleFrom(_)
EligibleFrom(i) ==
  IF i > Len(devices) THEN <<>>
  ELSE IF HasNoSubscription(i) THEN <<i - 1>> \o EligibleFrom(i + 1)
  ELSE EligibleFrom(i + 1)

\* C35: a start_event_receivers call that succeeds has spawned, by the time
\* it returns, one task for each eligible device of the registry, in
\* registry order, and no other task, and it returns the receiver exactly
\* when it spawned a task.
C35_OneTaskPerEligibleDevice ==
  [][(start_event_receivers /\ last'.error = None) =>
       /\ Len(tasks') = Len(tasks) + Len(EligibleFrom(1))
       /\ \A k \in 1..Len(EligibleFrom(1)) :
            /\ tasks'[Len(tasks) + k].id = EligibleFrom(1)[k]
            /\ tasks'[Len(tasks) + k].pc = "Polling"
       /\ \A t \in DOMAIN tasks : tasks'[t] = tasks[t]
       /\ (last'.receiver # 0) <=> (Len(tasks') > Len(tasks))]_vars

DiscoverFails == discover /\ last'.error # None

\* C38: a discover whose Discovery fails returns that error and leaves the
\* registry, the policy, the tasks and their queues as they were.
C38_FailedDiscoverChangesNothing ==
  [][DiscoverFails =>
       /\ last'.error.kind = "Discovery"
       /\ devices' = devices
       /\ privacy_policy' = privacy_policy
       /\ sender' = sender
       /\ tasks' = tasks
       /\ channels' = channels
       /\ shutdown_pc' = shutdown_pc]_vars

\* A failed discover on a registry with a device whose task is running.
C38_Witness ==
  /\ last.op = "discover"
  /\ last.error # None
  /\ Len(devices) = MaxDevices
  /\ \E t \in DOMAIN tasks :
       tasks[t].current /\ tasks[t].pc = "Polling" /\ ~tasks[t].cancelled

\* The queue of channel c belongs to a start_event_receivers call that
\* returned an error: its receiver was dropped with the call.
FailedCall(c) == channels[c].rx = "never"

DifferOnlyAt(P, d) ==
  LET overrides == P.block_device_on_hazards IN
  {[P EXCEPT !.block_device_on_hazards = [i \in DOMAIN overrides \ {d} |-> overrides[i]]]}
    \cup {[P EXCEPT !.block_device_on_hazards =
                     [i \in DOMAIN overrides \cup {d} |->
                        IF i = d THEN o ELSE overrides[i]]] : o \in OverrideSets}

\* C37: the override of a device bears on that device alone: under the
\* policy in place and under any policy that differs from it only in the
\* override of device d, every request of a device other than d gets the
\* same decision; and a request of a device without override is skipped
\* exactly when the global block set meets its hazards.
C37_OverridesIsolated ==
  \A id \in 0..(Len(devices) - 1), route \in RouteNames :
    LET here == request(privacy_policy, devices[id + 1], id, route) IN
    /\ \A d \in PolicyIds \ {id} : \A Q \in DifferOnlyAt(privacy_policy, d) :
         request(Q, devices[id + 1], id, route).skip = here.skip
    /\ (here.error = None /\ id \notin DOMAIN privacy_policy.block_device_on_hazards) =>
         (here.skip <=> here.request.hazards \cap privacy_policy.block_on_hazards # {})

\* A request of device 1 on a route whose hazard the override of device 0
\* blocks, evaluated and let through: device 1 has no override and the
\* global block set does not meet the route's hazards.
C37_Witness ==
  /\ last.op = "request"
  /\ last.error = None
  /\ last.id = 1
  /\ last.evaluated
  /\ ~last.skip
  /\ 1 \notin DOMAIN privacy_policy.block_device_on_hazards
  /\ LastHazards \cap OverrideOf(privacy_policy, 0) # {}

\* ------------------------------------------------------------------------
\* Properties of the construction of a light
\* ------------------------------------------------------------------------
\* The response kind of the handlers of a FuncType.
ResponseKindOf(func_type) ==
  IF func_type \in {"OkStateless", "OkStateful"} THEN "Ok"
  ELSE IF func_type \in {"SerialStateless", "SerialStateful"} THEN "Serial"
  ELSE "Info"

\* The handler vector a FuncIndex points into.
VectorOf(func_index) == light.routes_functions[FunctionsSlot(func_index.func_type)]

\* C40: after any sequence of route additions index_array has one entry for
\* each stored route configuration, in the same order, and each entry
\* addresses an element of the handler vector of its type: the handler that
\* was given with that route; no handler is stored beside these. Adding a
\* route whose configuration is in the set leaves the configurations, the
\* handler vectors and index_array as they were.
C40_IndexArrayMatchesRoutes ==
  /\ [](/\ Len(light.index_array) = Len(light.route_configs)
        /\ \A k \in DOMAIN light.index_array :
             LET func_index == light.index_array[k]
                 route_config == light.route_configs[k]
             IN /\ func_index.index + 1 \in DOMAIN VectorOf(func_index)
                /\ VectorOf(func_index)[func_index.index + 1].path = route_config.path
                /\ VectorOf(func_index)[func_index.index + 1].rest_kind =
                     route_config.rest_kind
                /\ ResponseKindOf(func_index.func_type) = route_config.response_kind
        /\ \A j, k \in DOMAIN light.index_array :
             j # k => light.index_array[j] # light.index_array[k]
        /\ \A slot \in DOMAIN FuncType :
             Len(light.routes_functions[slot]) =
               Cardinality({k \in DOMAIN light.index_array :
                              light.index_array[k].func_type = FuncType[slot]}))
  /\ [][\A slot \in DOMAIN FuncType, route \in LightRoutes :
          (/\ light_route(FuncType[slot], route)
           /\ contains(light.route_configs,
                       RouteConfig(route, ResponseKindOf(FuncType[slot])))) =>
             light' = [light EXCEPT !.calls = @ + 1]]_vars

\* A light with three routes, two of them with handlers of one type, on
\* which a fourth call gave a route that was there already.
C40_Witness ==
  /\ Len(light.route_configs) = 3
  /\ light.calls = 4
  /\ \E j, k \in DOMAIN light.index_array :
       /\ j < k
       /\ light.index_array[j].func_type = light.index_array[k].func_type
       /\ light.index_array[j].index = 0
       /\ light.index_array[k].index = 1

====
